---------------------------- MODULE Spec2Model ----------------------------
(***************************************************************************)
(* A model of the AQL compute queue of the ROCR runtime                    *)
(* (src/core/runtime/amd_aql_queue.cpp): the write-index / doorbell        *)
(* submission path, the two asynchronous fault handlers and the destructor *)
(* that terminates them, Inactivate, and the per-process queue event.      *)
(*                                                                         *)
(* Memory is modelled sequentially consistent: every atomic load, store    *)
(* and read-modify-write of the source is one step, and the fences         *)
(* (StoreRelease's release fence, Inactivate's acquire fence) are no-ops.  *)
(* 64-bit indices and the 32-bit MMIO register are modelled at the scaled  *)
(* widths IndexBits and DoorbellBits. Signal values are modelled as the    *)
(* set of their set bits (bit 63 is the retry bit, -1 is every bit).       *)
(***************************************************************************)
EXTENDS Integers, Sequences, FiniteSets, TLC

\* ------------------------------------------------------------------ bounds
\* log2 of hsa_queue.size (the ring holds 2^SizeLog2 packets).
SizeLog2 == 1
\* Producer threads of the submission protocol.
NumProducers == 3
\* Threads ringing the doorbell with arbitrary values.
NumCallers == 2
\* Largest value the write index is driven to by the environment.
MaxWrite == 3
\* Modelled width of the 64-bit packet indices.
IndexBits == 5
\* Modelled width of the 32-bit MMIO doorbell register.
DoorbellBits == 4

Size == 2 ^ SizeLog2
IndexModulus == 2 ^ IndexBits
DoorbellModulus == 2 ^ DoorbellBits

Max2(a, b) == IF a >= b THEN a ELSE b
Producers == 1 .. NumProducers
Callers == 1 .. NumCallers
Threads == 1 .. Max2(NumProducers, NumCallers)

\* sizeof(core::AqlPacket) / sizeof(uint32_t)
PacketDwords == 16

\* A ring slot is <<>> while its header is HSA_PACKET_TYPE_INVALID, and <<i>> once
\* the packet of index i has been written into it.
INVALID == <<>>

\* Min of utils.h, as used by the doorbell clamp.
Min(a, b) == IF a < b THEN a ELSE b

\* The C operator & on naturals.
RECURSIVE BitAnd(_, _)
BitAnd(a, b) ==
  IF a = 0 \/ b = 0 THEN 0
  ELSE (IF a % 2 = 1 /\ b % 2 = 1 THEN 1 ELSE 0) + 2 * BitAnd(a \div 2, b \div 2)

\* uint64_t(x): conversion of a signed value to the index width.
ToIndex(x) == x % IndexModulus
\* uint32_t(x): truncation to the MMIO register width.
ToDoorbell(x) == x % DoorbellModulus

VARIABLES
  \* build and agent configuration
  doorbell_type_, large_model, queue_full_workaround_, waits_for_slot,
  \* amd_queue_ fields of the submission path
  read_dispatch_id, write_dispatch_id, max_legacy_doorbell_dispatch_id_plus_1,
  legacy_doorbell_lock,
  \* the hardware: native doorbell register (empty until first rung), legacy
  \* MMIO writes, ring slots,
  \* packets the packet processor has consumed
  hardware_doorbell, mmio, ring, consumed,
  \* per-thread position and locals (value argument, legacy_dispatch_id,
  \* index obtained from AddWriteIndex, position in the script)
  pc, val, legacy_dispatch_id, idx, script_pos,
  \* whether the KFD supports exception debugging (the scratch handler is
  \* then DynamicScratchHandler<false> and ExceptionHandler is registered)
  supports_exception_debugging,
  \* the two handler state words, as sets of ERROR_HANDLER_* flags
  dynamicScratchState, exceptionState,
  \* the values of queue_inactive_signal and exception_signal_, as bit sets
  inactive_signal, exception_signal,
  \* the wait values of the registrations armed on the inactive signal
  \* (condition NE), and whether ExceptionHandler is armed
  scratch_regs, exc_armed,
  \* the running scratch-handler and exception-handler invocations
  scratch_handler, exc_handler,
  \* the destructor's position and what it and the handlers have done
  dpc, active_, suspended_, kmd_destroy_calls, scratch_held, ring_freed,
  signals_destroyed, callbacks,
  \* handler accesses to queue fields after DONE / after the queue is freed
  access_after_done, access_after_free,
  \* threads calling Inactivate: position, result of the exchange, calls made
  ipc, inact_ret,
  \* the per-process queue event and its reference count
  \* (and whether the assert of line 235 has failed), with the position of
  \* each thread that constructs and destroys queues
  g_use_interrupt_wait, queue_lock_, queue_count_, queue_event_,
  event_assert_failed, cpc,
  \* the constructor under study: its position, its argument, the capacity it
  \* settled on, what it threw, what it holds (ring buffer, signals, KMD
  \* queue, PM4 IB) and the scope guards that are armed, innermost last
  kpc, req_size_pkts, queue_size_pkts, ctor_status, ring_buf_, ctor_signals,
  kmd_queue, pm4_ib_buf_, guards,
  \* the mutex of ExecutePM4: 0 or its holder; whether a store or swap has
  \* set the write index to a smaller value (history); the caller whose
  \* command the PM4 IB holds, 0 before the first copy
  pm4_ib_mutex_, write_lowered, pm4_ib_cmd,
  \* the recorded priority, the hsaKmtUpdateQueue calls made so far, and the
  \* SetPriority call of each caller
  priority_, kmd_updates, set_priority,
  \* CU masking: the agent's CU count, the process-global mask, the cached
  \* mask, the mask passed to the KMD by the call under study, and the
  \* SetCUMasking and GetCUMasking calls under study with their results
  cu_count, global_mask, cu_mask_, kmd_cu_mask, cu_set, cu_get,
  \* amd_queue_.hsa_queue.type, the calls of agent.GWSRelease made so far and
  \* what the calls of EnableGWS returned, in order
  hsa_queue_type, gws_release_calls, enable_gws_ret,
  \* scratch: queue_scratch_, the fields of amd_queue_ that InitScratchSRD
  \* writes, the USE_SCRATCH_ONCE bit of amd_queue_.queue_properties, the
  \* dispatch packet at the read index and the agent's properties
  queue_scratch_, scratch_srd, queue_properties, dispatch_pkt, agent_props,
  \* the ring allocation: the agent's profile, ring_buf_alloc_bytes_, the
  \* physical slot behind each virtual slot from ring_buf_ on (0: none), the
  \* content of the physical slots, and the last value read through ring_buf_
  agent_profile, ring_buf_alloc_bytes_, ring_view, ring_store, ring_read

dbCfg == <<doorbell_type_, large_model, queue_full_workaround_, waits_for_slot>>
dbQueue == <<read_dispatch_id, write_dispatch_id,
             max_legacy_doorbell_dispatch_id_plus_1, legacy_doorbell_lock>>
dbHw == <<hardware_doorbell, mmio, ring, consumed>>
dbThreads == <<pc, val, legacy_dispatch_id, idx, script_pos>>
dbVars == <<dbCfg, dbQueue, dbHw, dbThreads>>

lifeCfg == <<supports_exception_debugging>>
lifeSignals == <<dynamicScratchState, exceptionState, inactive_signal,
                 exception_signal, scratch_regs, exc_armed>>
lifeHandlers == <<scratch_handler, exc_handler>>
lifeQueue == <<active_, suspended_, kmd_destroy_calls, scratch_held, ring_freed,
               signals_destroyed, callbacks>>
lifeGhost == <<access_after_done, access_after_free>>
lifeInact == <<ipc, inact_ret>>
lifeVars == <<lifeCfg, lifeSignals, lifeHandlers, dpc, lifeQueue, lifeGhost,
              lifeInact>>

evVars == <<g_use_interrupt_wait, queue_lock_, queue_count_, queue_event_,
            event_assert_failed, cpc>>

ctorVars == <<kpc, req_size_pkts, queue_size_pkts, ctor_status, ring_buf_,
              ctor_signals, kmd_queue, pm4_ib_buf_, guards>>

\* The parts of the model other than the doorbell, lifecycle and event parts.
pm4Vars == <<pm4_ib_mutex_, write_lowered, pm4_ib_cmd>>
prioVars == <<priority_, kmd_updates, set_priority>>
cuVars == <<cu_count, global_mask, cu_mask_, kmd_cu_mask, cu_set, cu_get>>
gwsVars == <<hsa_queue_type, gws_release_calls, enable_gws_ret>>
srdVars == <<queue_scratch_, scratch_srd, queue_properties, dispatch_pkt,
             agent_props>>
ringVars == <<agent_profile, ring_buf_alloc_bytes_, ring_view, ring_store,
              ring_read>>
moreVars == <<pm4Vars, prioVars, cuVars, gwsVars, srdVars, ringVars>>
restVars == <<ctorVars, moreVars>>

vars == <<dbVars, lifeVars, evVars, restVars>>

\* What the actions of one part of the model leave alone.
notDb == <<lifeVars, evVars, restVars>>
notLife == <<dbVars, evVars, restVars>>
notEv == <<dbVars, lifeVars, restVars>>
\* What Suspend, called from the lifecycle part, leaves alone outside it.
notLifeSuspend == <<dbVars, evVars, ctorVars, pm4Vars, cuVars, gwsVars,
                    srdVars, ringVars, priority_, set_priority>>
\* What the scratch handler, which rewrites the scratch fields, leaves alone
\* outside the lifecycle part.
notLifeScratch == <<dbVars, evVars, ctorVars, pm4Vars, prioVars, cuVars,
                    gwsVars, ringVars, dispatch_pkt, agent_props>>

\* ------------------------------------------------- signal values, handlers
\* A signal value is the set of the bit positions that are set in it.
Zero == {}
AllOnes == 0 .. 63
RetryValue == {63}
ReclaimCode == {9}
InsufficientScratch == {0, 10}

\* Threads that call Inactivate, and threads that construct and destroy
\* queues of the process.
NumInactCallers == 2
InactCallers == 1 .. NumInactCallers
NumQueueThreads == 3
QueueThreads == 1 .. NumQueueThreads
\* The lock-holder id of the destructor of the queue under study.
DtorId == NumQueueThreads + 1
nullptr == <<>>

\* The locals of a DynamicScratchHandler invocation (776-781) and of an
\* ExceptionHandler invocation (1005-1006); reg is the wait value of the
\* registration the invocation was dispatched from, signal is whether the
\* handle has been copied to a local.
ScratchHandlerIdle ==
  [pc |-> "idle", error_code |-> Zero, changeWait |-> FALSE, waitVal |-> Zero,
   errorCode |-> "SUCCESS", reg |-> Zero, signal |-> FALSE]
ExcHandlerIdle ==
  [pc |-> "idle", error_code |-> Zero, errorCode |-> "ERROR", signal |-> FALSE]

\* The queue as the constructor leaves it (284-305, 318).
LifeConstructed ==
  /\ dynamicScratchState = {}
  /\ exceptionState = (IF supports_exception_debugging THEN {} ELSE {"DONE"})
  /\ inactive_signal = Zero
  /\ exception_signal = Zero
  /\ scratch_regs = <<Zero>>
  /\ exc_armed = supports_exception_debugging
  /\ scratch_handler = ScratchHandlerIdle
  /\ exc_handler = ExcHandlerIdle
  /\ dpc = "live"
  /\ active_ = TRUE
  /\ suspended_ = FALSE
  /\ kmd_destroy_calls = 0
  /\ scratch_held = FALSE
  /\ ring_freed = FALSE
  /\ signals_destroyed = FALSE
  /\ callbacks = <<>>
  /\ access_after_done = FALSE
  /\ access_after_free = FALSE
  /\ ipc = [t \in InactCallers |-> "idle"]
  /\ inact_ret = [t \in InactCallers |-> "none"]

\* One queue of the process, constructed in interrupt mode (231-246).
EventOneQueue ==
  /\ g_use_interrupt_wait = TRUE
  /\ queue_lock_ = 0
  /\ queue_count_ = 1
  /\ queue_event_ = <<1>>
  /\ event_assert_failed = FALSE
  /\ cpc = [q \in QueueThreads |-> "none"]

\* ------------------------------------------------------ ring sizing (117-129)
\* Modelled width of uint32_t, and the logarithms of sizeof(core::AqlPacket)
\* (64 bytes in the source), of the 0x400-byte minimum and of the 0x1000-byte
\* page, scaled with it.
Uint32Bits == 8
PacketLog2 == 2
MinBytesLog2 == 3
PageLog2 == 4

Uint32Modulus == 2 ^ Uint32Bits
PacketBytes == 2 ^ PacketLog2
\* uint32_t(x)
ToUint32(x) == x % Uint32Modulus
\* Max of utils.h
Max(a, b) == IF a > b THEN a ELSE b
\* size_t arguments: one bit wider than uint32_t
Requests == 0 .. 2 * Uint32Modulus - 1

\* HSA_QUEUE_PRIORITY values a caller may pass, and a SetPriority call
\* (765-773): its position, argument and return value, and whether Suspend
\* had run when it was made (history).
Priorities == {"LOW", "NORMAL", "HIGH"}
SetPriorityIdle ==
  [pc |-> "idle", priority |-> "NORMAL", ret |-> "none", late |-> FALSE]

\* ------------------------------------------------- CU masks (1035-1105)
\* The modelled width of the uint32_t words of a CU mask, and the largest CU
\* count of an agent. A word is the set of the bit positions set in it.
DwordBits == 2
MaxCuCount == 3
\* uint32_t(-1) and 0.
DwordOnes == 0 .. DwordBits - 1
DwordZero == {}
\* No call made yet.
CuSetIdle == [num_cu_mask_count |-> 0, cu_mask |-> <<>>, ret |-> "none"]
CuGetIdle == [num_cu_mask_count |-> 0, out |-> <<>>, ret |-> "none"]

\* ------------------------------------------------- scratch (812-889, 1229-1328)
\* The logarithms of the 64 lanes of a wave64 and of the 1024 bytes that a
\* wave's scratch is aligned to, scaled with the width of uint32_t.
WaveLog2 == 2
KbLog2 == 3
Wave64 == 2 ^ WaveLog2
Wave32 == Wave64 \div 2
Kb == 2 ^ KbLog2
\* AlignUp of utils.h, for an alignment that is a power of two.
AlignUp(value, alignment) == ((value + alignment - 1) \div alignment) * alignment

\* A ScratchInfo without memory (796-799).
EmptyScratch ==
  [queue_base |-> "nullptr", size |-> 0, size_per_thread |-> 0,
   lanes_per_wave |-> Wave64, waves_per_group |-> 0, wanted_slots |-> 0,
   dispatch_size |-> 0, queue_process_offset |-> 0, large |-> FALSE,
   retry |-> FALSE]

\* The agent of the lifecycle part: two compute units with one scratch slot
\* each, one shader engine, and an allocator that calls no request large.
PlainAgent ==
  [max_cu_id |-> 1, MaxSlotsScratchCU |-> 1, NumShaderBanks |-> 1,
   large_from |-> 2 * Uint32Modulus]
\* The dispatch of the lifecycle part: one work-item, one byte of scratch.
PlainDispatch ==
  [private_segment_size |-> 1,
   workgroup_size |-> <<1, 1, 1>>, grid_size |-> <<1, 1, 1>>]

\* 1306-1328: COMPUTE_TMPRING_SIZE, as its WAVESIZE and WAVES fields.
TmpringSize(scratch, props) ==
  IF scratch.size = 0
  THEN [WAVESIZE |-> 0, WAVES |-> 0]
  ELSE LET max_scratch_waves ==
             ToUint32((props.max_cu_id + 1) * props.MaxSlotsScratchCU)
           wave_scratch ==
             ToUint32((scratch.lanes_per_wave * scratch.size_per_thread + Kb - 1)
                        \div Kb)
           num_waves == ToUint32(scratch.size \div (wave_scratch * Kb))
       IN  [WAVESIZE |-> wave_scratch,
            WAVES |-> IF num_waves < max_scratch_waves
                      THEN num_waves ELSE max_scratch_waves]

\* 1249 with the conversion to uint32_t left out.
NumRecords_Wide(scratch) == scratch.size

\* 1249: srd2.bits.NUM_RECORDS = uint32_t(queue_scratch_.size).
NumRecords(scratch) == ToUint32(scratch.size)

\* 1229-1328: what InitScratchSRD writes to amd_queue_ (of the descriptor,
\* the base address and word 2).
InitScratchSRD(scratch, props) ==
  [BASE_ADDRESS |-> scratch.queue_base,
   NUM_RECORDS |-> NumRecords(scratch),
   scratch_backing_memory_location |-> scratch.queue_process_offset,
   scratch_backing_memory_byte_size |-> scratch.size,
   scratch_wave64_lane_byte_size |->
     ToUint32((scratch.size_per_thread * scratch.lanes_per_wave) \div Wave64),
   compute_tmpring_size |-> TmpringSize(scratch, props)]

\* ------------------------------------------------- the ring's mapping (543-688)
\* The mapping with the upper half left out.
RingView_Single(pkts, double) == [k \in 1 .. pkts |-> k]

\* The virtual slots of an allocation of pkts packets: slot k is backed by
\* physical slot k, and with the double mapping slot pkts + k is too.
RingView(pkts, double) ==
  [k \in 1 .. (IF double THEN 2 * pkts ELSE pkts) |-> ((k - 1) % pkts) + 1]

\* 674-686: the bytes of the allocation made through the system allocator.
AllocatorBytes(pkts, qfw) ==
  AlignUp(pkts * PacketBytes, 2 ^ PageLog2) * (IF qfw = 1 THEN 2 ELSE 1)

\* No slot has been read through ring_buf_ yet.
NoRead == [slot |-> 0, value |-> "none"]

\* 138-140: every packet header is made invalid.
InvalidRing(pkts) == [k \in 1 .. pkts |-> "INVALID"]

\* The ring of a constructed queue of Size packets on an agent of the BASE
\* profile (674-686, 138-140).
RingIdle ==
  /\ agent_profile = "BASE"
  /\ ring_buf_alloc_bytes_ = AllocatorBytes(Size, queue_full_workaround_)
  /\ ring_view = RingView(Size, queue_full_workaround_ = 1)
  /\ ring_store = InvalidRing(Size)
  /\ ring_read = NoRead

\* A queue of type MULTI (158) on which EnableGWS was not called.
GwsIdle ==
  /\ hsa_queue_type = "MULTI"
  /\ gws_release_calls = 0
  /\ enable_gws_ret = <<>>

\* A queue without scratch (285): the SRD is built from an empty ScratchInfo.
ScratchNone ==
  /\ queue_scratch_ = EmptyScratch
  /\ scratch_srd = InitScratchSRD(EmptyScratch, agent_props)
  /\ queue_properties = {}

ExtIdle ==
  /\ GwsIdle
  /\ agent_props = PlainAgent
  /\ dispatch_pkt = PlainDispatch
  /\ ScratchNone

\* A successfully constructed queue, as the other parts of the model see it.
CtorDone ==
  /\ kpc = "done"
  /\ req_size_pkts = Size
  /\ queue_size_pkts = Size
  /\ ctor_status = "SUCCESS"
  /\ ring_buf_ = TRUE
  /\ RingIdle
  /\ ctor_signals = {"inactive", "exception"}
  /\ kmd_queue = "created"
  /\ pm4_ib_buf_ = TRUE
  /\ guards = <<>>

\* No call of the remaining interface is in progress.
CallsIdle ==
  /\ pm4_ib_mutex_ = 0
  /\ write_lowered = FALSE
  /\ pm4_ib_cmd = 0
  /\ priority_ = "NORMAL"
  /\ kmd_updates = <<>>
  /\ set_priority = [t \in InactCallers |-> SetPriorityIdle]
  /\ cu_count = DwordBits
  /\ global_mask = <<>>
  /\ cu_mask_ = <<DwordOnes>>
  /\ kmd_cu_mask = <<>>
  /\ cu_set = CuSetIdle
  /\ cu_get = CuGetIdle

MoreIdle == CallsIdle /\ ExtIdle

RestIdle == CtorDone /\ MoreIdle

\* ------------------------------------------------- write index (384-429)
\* atomic::Add on write_dispatch_id: returns the old value.
\* AddWriteIndex(old, value) is true when the call adds value and returns old.
AddWriteIndex_ReturnsNew(old, value) ==
  /\ old = ToIndex(write_dispatch_id + value)
  /\ write_dispatch_id' = ToIndex(write_dispatch_id + value)

AddWriteIndex(old, value) ==
  /\ old = write_dispatch_id
  /\ write_dispatch_id' = ToIndex(write_dispatch_id + value)

\* atomic::Store on write_dispatch_id.
StoreWriteIndex(v) ==
  write_dispatch_id' = v

\* ------------------------------------------------ StoreRelaxed (431-500)
\* The value written to the legacy MMIO doorbell for dispatch index d.
MmioValue(d) ==
  IF doorbell_type_ = 0
  THEN ToDoorbell(BitAnd(d, ((1 + queue_full_workaround_) * Size) - 1) * PacketDwords)
  ELSE ToDoorbell(d)

\* doorbell_type_ == 2: store to the native doorbell and return.
DbNative(t) ==
  /\ pc[t] = "call"
  /\ doorbell_type_ = 2
  /\ hardware_doorbell' = <<ToIndex(val[t])>>
  /\ pc' = [pc EXCEPT ![t] = "idle"]
  /\ val' = [val EXCEPT ![t] = 0]
  /\ UNCHANGED <<notDb, dbCfg, dbQueue, mmio, ring, consumed, legacy_dispatch_id,
                 idx, script_pos>>

\* atomic::Cas(&legacy_doorbell_lock, 1U, 0U) (439) taken to succeed
\* whatever the lock holds.
CasLockSucceeds_Always == TRUE

\* atomic::Cas(&legacy_doorbell_lock, 1U, 0U) (439) succeeds when the lock
\* holds 0.
CasLockSucceeds == legacy_doorbell_lock = 0

\* The spinlock CAS that succeeds; a failed CAS yields and retries.
DbLock(t) ==
  /\ pc[t] = "call"
  /\ doorbell_type_ # 2
  /\ CasLockSucceeds
  /\ legacy_doorbell_lock' = t
  /\ pc' = [pc EXCEPT ![t] = "compute"]
  /\ UNCHANGED <<notDb, dbCfg, read_dispatch_id, write_dispatch_id,
                 max_legacy_doorbell_dispatch_id_plus_1, dbHw, val,
                 legacy_dispatch_id, idx, script_pos>>

\* HSA_LARGE_MODEL: the index one beyond the packet the caller named.
LargeModelId_NoPlusOne(t) ==
  ToIndex(val[t])

LargeModelId(t) ==
  ToIndex(val[t] + 1)

\* legacy_dispatch_id = value + 1 (large model) or the write index (small);
\* the argument is not read after this statement.
DbCompute(t) ==
  /\ pc[t] = "compute"
  /\ legacy_dispatch_id' =
       [legacy_dispatch_id EXCEPT
          ![t] = IF large_model THEN LargeModelId(t) ELSE write_dispatch_id]
  /\ val' = [val EXCEPT ![t] = 0]
  /\ pc' = [pc EXCEPT ![t] = IF large_model THEN "compare" ELSE "clamp"]
  /\ UNCHANGED <<notDb, dbCfg, dbQueue, dbHw, idx, script_pos>>

\* The small-model clamp to read_dispatch_id + size.
ClampedId_NoClamp(t) ==
  legacy_dispatch_id[t]

\* The clamp taken against the ring size alone.
ClampedId_ToSize(t) ==
  Min(legacy_dispatch_id[t], Size)

ClampedId(t) ==
  Min(legacy_dispatch_id[t], read_dispatch_id + Size)

DbClamp(t) ==
  /\ pc[t] = "clamp"
  /\ legacy_dispatch_id' = [legacy_dispatch_id EXCEPT ![t] = ClampedId(t)]
  /\ pc' = [pc EXCEPT ![t] = "compare"]
  /\ UNCHANGED <<notDb, dbCfg, dbQueue, dbHw, val, idx, script_pos>>

\* Whether the doorbell is forwarded: backwards and duplicates are dropped.
IsForward_OrEqual(t) ==
  legacy_dispatch_id[t] >= max_legacy_doorbell_dispatch_id_plus_1

IsForward_AgainstRead(t) ==
  legacy_dispatch_id[t] > read_dispatch_id

IsForward(t) ==
  legacy_dispatch_id[t] > max_legacy_doorbell_dispatch_id_plus_1

\* The compare and, when forward, the store to the proxy write index.
DbCompare(t) ==
  /\ pc[t] = "compare"
  /\ IF IsForward(t)
     THEN /\ max_legacy_doorbell_dispatch_id_plus_1' = legacy_dispatch_id[t]
          /\ pc' = [pc EXCEPT ![t] = "mmio"]
     ELSE /\ UNCHANGED max_legacy_doorbell_dispatch_id_plus_1
          /\ pc' = [pc EXCEPT ![t] = "unlock"]
  /\ UNCHANGED <<notDb, dbCfg, read_dispatch_id, write_dispatch_id, legacy_doorbell_lock,
                 dbHw, val, legacy_dispatch_id, idx, script_pos>>

\* The store to legacy_hardware_doorbell_ptr.
DbMmio(t) ==
  /\ pc[t] = "mmio"
  /\ mmio' = Append(mmio, [id |-> legacy_dispatch_id[t],
                           value |-> MmioValue(legacy_dispatch_id[t])])
  /\ pc' = [pc EXCEPT ![t] = "unlock"]
  /\ UNCHANGED <<notDb, dbCfg, dbQueue, hardware_doorbell, ring, consumed, val,
                 legacy_dispatch_id, idx, script_pos>>

\* The store that releases the spinlock; the call returns and its argument
\* and local go out of scope.
DbUnlock(t) ==
  /\ pc[t] = "unlock"
  /\ legacy_doorbell_lock' = 0
  /\ pc' = [pc EXCEPT ![t] = "idle"]
  /\ val' = [val EXCEPT ![t] = 0]
  /\ legacy_dispatch_id' = [legacy_dispatch_id EXCEPT ![t] = 0]
  /\ UNCHANGED <<notDb, dbCfg, read_dispatch_id, write_dispatch_id,
                 max_legacy_doorbell_dispatch_id_plus_1, dbHw, idx, script_pos>>

StoreRelaxed(t) ==
  \/ DbNative(t)
  \/ DbLock(t)
  \/ DbCompute(t)
  \/ DbClamp(t)
  \/ DbCompare(t)
  \/ DbMmio(t)
  \/ DbUnlock(t)


\* ------------------------------------------------------ packet processor
\* The write pointer the hardware sees: write_dispatch_id once the native
\* doorbell has been rung (Queue_write_ptr_aql, 149-151), else the software
\* proxy max_legacy_doorbell_dispatch_id_plus_1 (152-155).
GpuLimit ==
  IF doorbell_type_ = 2
  THEN (IF hardware_doorbell = <<>> THEN 0 ELSE write_dispatch_id)
  ELSE max_legacy_doorbell_dispatch_id_plus_1

\* The packet processor stalls on a slot whose header is INVALID.
GpuCanConsume ==
  /\ read_dispatch_id < GpuLimit
  /\ ring[read_dispatch_id % Size] # INVALID

\* Consume the packet at the read index, invalidate its header, advance.
GpuConsume ==
  /\ GpuCanConsume
  /\ consumed' = Append(consumed, ring[read_dispatch_id % Size][1])
  /\ ring' = [ring EXCEPT ![read_dispatch_id % Size] = INVALID]
  /\ read_dispatch_id' = read_dispatch_id + 1
  /\ UNCHANGED <<notDb, dbCfg, write_dispatch_id, max_legacy_doorbell_dispatch_id_plus_1,
                 legacy_doorbell_lock, hardware_doorbell, mmio, dbThreads>>

\* ------------------------------------------- the submission protocol
\* i = AddWriteIndex(1)
ProdAdd(t) ==
  /\ pc[t] = "start"
  /\ \E i \in 0 .. IndexModulus - 1 :
       /\ AddWriteIndex(i, 1)
       /\ idx' = [idx EXCEPT ![t] = i]
  /\ pc' = [pc EXCEPT ![t] = "wait"]
  /\ UNCHANGED <<notDb, dbCfg, read_dispatch_id, max_legacy_doorbell_dispatch_id_plus_1,
                 legacy_doorbell_lock, dbHw, val, legacy_dispatch_id, script_pos>>

\* A producer that waits for its slot spins until i - read < size, as
\* ExecutePM4 does (1117-1119); one that does not goes straight on.
ProdWait(t) ==
  /\ pc[t] = "wait"
  /\ waits_for_slot => idx[t] - read_dispatch_id < Size
  /\ pc' = [pc EXCEPT ![t] = "write"]
  /\ UNCHANGED <<notDb, dbCfg, dbQueue, dbHw, val, legacy_dispatch_id, idx, script_pos>>

\* slot[i mod size] = packet, then StoreRelease(doorbell, i + 1)
ProdWrite(t) ==
  /\ pc[t] = "write"
  /\ ring' = [ring EXCEPT ![idx[t] % Size] = <<idx[t]>>]
  /\ val' = [val EXCEPT ![t] = idx[t] + 1]
  /\ pc' = [pc EXCEPT ![t] = "call"]
  /\ UNCHANGED <<notDb, dbCfg, dbQueue, hardware_doorbell, mmio, consumed,
                 legacy_dispatch_id, idx, script_pos>>

\* The queue record after construction (memset at 143, ring fill 138-140).
InitQueueRecord ==
  /\ read_dispatch_id = 0
  /\ write_dispatch_id = 0
  /\ max_legacy_doorbell_dispatch_id_plus_1 = 0
  /\ legacy_doorbell_lock = 0
  /\ hardware_doorbell = <<>>
  /\ mmio = <<>>
  /\ ring = [s \in 0 .. Size - 1 |-> INVALID]
  /\ consumed = <<>>

InitConfig ==
  /\ doorbell_type_ \in {0, 1, 2}
  /\ large_model \in BOOLEAN
  \* queue_full_workaround_ is read by the GFX7 dword doorbell alone.
  /\ queue_full_workaround_ \in (IF doorbell_type_ = 0 THEN {0, 1} ELSE {1})

InitProto ==
  /\ InitConfig
  /\ supports_exception_debugging = FALSE
  /\ LifeConstructed
  /\ RestIdle
  /\ EventOneQueue
  /\ waits_for_slot \in BOOLEAN
  /\ InitQueueRecord
  /\ pc = [t \in Threads |-> IF t \in Producers THEN "start" ELSE "off"]
  /\ val = [t \in Threads |-> 0]
  /\ legacy_dispatch_id = [t \in Threads |-> 0]
  /\ idx = [t \in Threads |-> 0]
  /\ script_pos = 0

NextProto ==
  \/ \E t \in Producers : ProdAdd(t)
  \/ \E t \in Producers : ProdWait(t)
  \/ \E t \in Producers : ProdWrite(t)
  \/ \E t \in Producers : StoreRelaxed(t)
  \/ GpuConsume

SpecProto == InitProto /\ [][NextProto]_vars


\* ------------------------------------- arbitrary doorbell callers
\* hsa_signal_value_t arguments the callers ring the doorbell with.
Values == {-2, 0, 3}

\* A caller rings the doorbell with any value.
CallerRing(t) ==
  /\ pc[t] = "idle"
  /\ \E v \in Values : val' = [val EXCEPT ![t] = v]
  /\ pc' = [pc EXCEPT ![t] = "call"]
  /\ UNCHANGED <<notDb, dbCfg, dbQueue, dbHw, legacy_dispatch_id, idx, script_pos>>

\* A caller stores any value to the write index.
CallerStoreWriteIndex(t) ==
  /\ pc[t] = "idle"
  /\ \E v \in 0 .. MaxWrite : StoreWriteIndex(v)
  /\ UNCHANGED <<notDb, dbCfg, read_dispatch_id, max_legacy_doorbell_dispatch_id_plus_1,
                 legacy_doorbell_lock, dbHw, dbThreads>>

\* The packet processor advances the read index over reserved packets the
\* doorbell has covered (ring contents are not tracked under these callers).
GpuAdvance ==
  /\ read_dispatch_id < GpuLimit
  /\ read_dispatch_id < write_dispatch_id
  /\ read_dispatch_id' = read_dispatch_id + 1
  /\ UNCHANGED <<notDb, dbCfg, write_dispatch_id, max_legacy_doorbell_dispatch_id_plus_1,
                 legacy_doorbell_lock, dbHw, dbThreads>>

InitDoorbell ==
  /\ InitConfig
  /\ supports_exception_debugging = FALSE
  /\ LifeConstructed
  /\ RestIdle
  /\ EventOneQueue
  /\ waits_for_slot = FALSE
  /\ InitQueueRecord
  /\ pc = [t \in Threads |-> IF t \in Callers THEN "idle" ELSE "off"]
  /\ val = [t \in Threads |-> 0]
  /\ legacy_dispatch_id = [t \in Threads |-> 0]
  /\ idx = [t \in Threads |-> 0]
  /\ script_pos = 0

NextDoorbell ==
  \/ \E t \in Callers : CallerRing(t)
  \/ \E t \in Callers : StoreRelaxed(t)
  \/ \E t \in Callers : CallerStoreWriteIndex(t)
  \/ GpuAdvance

SpecDoorbell == InitDoorbell /\ [][NextDoorbell]_vars

\* ------------------------------------------- one thread, scripted values
\* The values of the literal scenario: 5, 3, 7, 7, 8.
Script == <<5, 3, 7, 7, 8>>

ScriptRing ==
  /\ pc[1] = "idle"
  /\ script_pos < Len(Script)
  /\ val' = [val EXCEPT ![1] = Script[script_pos + 1]]
  /\ script_pos' = script_pos + 1
  /\ pc' = [pc EXCEPT ![1] = "call"]
  /\ UNCHANGED <<notDb, dbCfg, dbQueue, dbHw, legacy_dispatch_id, idx>>

ScriptAdd ==
  /\ write_dispatch_id < MaxWrite
  /\ \E i \in 0 .. IndexModulus - 1 : AddWriteIndex(i, 1)
  /\ UNCHANGED <<notDb, dbCfg, read_dispatch_id, max_legacy_doorbell_dispatch_id_plus_1,
                 legacy_doorbell_lock, dbHw, dbThreads>>

InitScript ==
  /\ InitConfig
  /\ supports_exception_debugging = FALSE
  /\ LifeConstructed
  /\ RestIdle
  /\ EventOneQueue
  /\ waits_for_slot = FALSE
  /\ InitQueueRecord
  /\ pc = [t \in Threads |-> IF t = 1 THEN "idle" ELSE "off"]
  /\ val = [t \in Threads |-> 0]
  /\ legacy_dispatch_id = [t \in Threads |-> 0]
  /\ idx = [t \in Threads |-> 0]
  /\ script_pos = 0

NextScript ==
  \/ ScriptRing
  \/ StoreRelaxed(1)
  \/ ScriptAdd
  \/ GpuAdvance

SpecScript == InitScript /\ [][NextScript]_vars

\* ------------------------------------------------------------ claim C1
Reserved == {t \in Producers : pc[t] # "start"}
AllProducersDone == \A t \in Producers : pc[t] = "idle"

\* Every producer obtains a distinct index and the indices handed out are
\* exactly 0 .. write_dispatch_id - 1.
C1_DistinctContiguous ==
  /\ \A t, u \in Reserved : t # u => idx[t] # idx[u]
  /\ {idx[t] : t \in Reserved} = 0 .. write_dispatch_id - 1
  /\ write_dispatch_id = Cardinality(Reserved)

\* The packet processor consumes the packets of index 0, 1, 2, ... in that
\* order, each once, and has consumed all of them when the producers are
\* done and it can go no further.
C1_ConsumedOnceInOrder ==
  /\ \A k \in 1 .. Len(consumed) : consumed[k] = k - 1
  /\ (AllProducersDone /\ ~GpuCanConsume) => Len(consumed) = NumProducers

MmioIds == [k \in 1 .. Len(mmio) |-> mmio[k].id]
MmioValues == [k \in 1 .. Len(mmio) |-> mmio[k].value]
NonDecreasing(q) == \A i, j \in 1 .. Len(q) : i < j => q[i] <= q[j]

\* C2: on a legacy doorbell, whatever the callers pass and however their
\* calls interleave, the dispatch index of each MMIO write is never less
\* than that of an earlier one, and
\* max_legacy_doorbell_dispatch_id_plus_1 never decreases.
C2_Monotonic ==
  [][doorbell_type_ # 2 =>
       /\ NonDecreasing(MmioIds')
       /\ max_legacy_doorbell_dispatch_id_plus_1' >=
            max_legacy_doorbell_dispatch_id_plus_1]_vars

C2_Witness ==
  /\ doorbell_type_ # 2
  /\ Len(mmio) >= 2
  /\ \E t \in Callers : pc[t] = "unlock" /\
        legacy_dispatch_id[t] < max_legacy_doorbell_dispatch_id_plus_1

\* ------------------------------------------------------------ claim C3
Published ==
  max_legacy_doorbell_dispatch_id_plus_1' # max_legacy_doorbell_dispatch_id_plus_1
Written == Len(mmio') > Len(mmio)

\* C3 as stated: every index published to the proxy write index or written
\* to MMIO is at most read_dispatch_id + size, whatever the caller passed.
C3_Original ==
  [][/\ Published =>
          max_legacy_doorbell_dispatch_id_plus_1' <= read_dispatch_id + Size
     /\ Written => mmio'[Len(mmio')].id <= read_dispatch_id + Size]_vars

\* C3 as amended: the bound holds in the small-model build, where the index
\* is the clamped write index; in the large-model build the index is the
\* caller's value plus one, unclamped.
C3_Amended ==
  [][/\ (Published /\ ~large_model) =>
          max_legacy_doorbell_dispatch_id_plus_1' <= read_dispatch_id + Size
     /\ (Written /\ ~large_model) =>
          mmio'[Len(mmio')].id <= read_dispatch_id + Size
     /\ (Published /\ large_model) =>
          \E t \in Threads : /\ legacy_doorbell_lock = t
                             /\ max_legacy_doorbell_dispatch_id_plus_1' =
                                  legacy_dispatch_id[t]
     /\ \A t \in Threads :
          (large_model /\ pc[t] = "compute" /\ pc'[t] # "compute")
            => legacy_dispatch_id'[t] = ToIndex(val[t] + 1)]_vars

\* A small-model call whose write index was clamped is about to ring.
C3_Witness ==
  /\ ~large_model
  /\ \E t \in Callers :
       /\ pc[t] = "mmio"
       /\ legacy_dispatch_id[t] = read_dispatch_id + Size
       /\ write_dispatch_id > read_dispatch_id + Size

\* ------------------------------------------------------------ claim C4
\* C4: a legacy call whose computed index is not above the last published
\* one goes from the compare straight to the unlock, and neither step
\* writes MMIO or changes max_legacy_doorbell_dispatch_id_plus_1.
C4_DroppedDoorbell ==
  [][\A t \in Threads :
       /\ (/\ pc[t] = "compare"
           /\ pc'[t] # "compare"
           /\ legacy_dispatch_id[t] <= max_legacy_doorbell_dispatch_id_plus_1)
          => /\ pc'[t] = "unlock"
             /\ mmio' = mmio
             /\ UNCHANGED max_legacy_doorbell_dispatch_id_plus_1
       /\ (pc[t] = "unlock" /\ pc'[t] # "unlock")
          => /\ pc'[t] = "idle"
             /\ mmio' = mmio
             /\ UNCHANGED max_legacy_doorbell_dispatch_id_plus_1]_vars

\* A duplicate doorbell has been dropped after an earlier one was forwarded.
C4_Witness ==
  /\ Len(mmio) = 1
  /\ \E t \in Callers :
       /\ pc[t] = "unlock"
       /\ legacy_dispatch_id[t] = max_legacy_doorbell_dispatch_id_plus_1
       /\ legacy_doorbell_lock = t
       /\ \E u \in Callers : u # t /\ pc[u] = "call"
       /\ mmio[1].id = legacy_dispatch_id[t]
       /\ large_model

\* ------------------------------------------------------------ claim C5
ScriptDone == script_pos = Len(Script) /\ pc[1] = "idle"

FaultCodes == {{0}, {9}, {1}}
ExcCodes == {{0}, {4}}
ScratchOutcomes == {"retry", "fail", "ok"}

\* The loop conditions of the destructor (331, 339).
HandlerDone_Terminate(state) == "TERMINATE" \in state
HandlerDone(state) == "DONE" \in state

\* hsa_signal_t signal = queue->amd_queue_.queue_inactive_signal (954), and
\* Signal* signal = queue->exception_signal_ (1009, 1029).
CopySignalHandle_Skipped(h) == h
CopySignalHandle(h) == [h EXCEPT !.signal = TRUE]

\* A handler step that reads or writes a field of the queue object.
QueueAccess(state) ==
  /\ access_after_done' = (access_after_done \/ "DONE" \in state)
  /\ access_after_free' = (access_after_free \/ dpc = "freed")

\* The final store of a handler: through the local handle if it was copied,
\* through the queue's field otherwise.
FinalStoreAccess(h, state) ==
  IF h.signal THEN UNCHANGED lifeGhost ELSE QueueAccess(state)

\* The chain of 892-925 with the test of 905 ahead of that of 901.
DecodeQueueError_ArgumentFirst(error_code) ==
  IF 1 \in error_code THEN "INCOMPATIBLE_ARGUMENTS"
  ELSE IF 2 \in error_code THEN "INVALID_ALLOCATION"
  ELSE IF 3 \in error_code THEN "INVALID_CODE_OBJECT"
  ELSE IF 6 \in error_code THEN "INVALID_ARGUMENT"
  ELSE IF 5 \in error_code \/ 8 \in error_code THEN "INVALID_PACKET_FORMAT"
  ELSE IF 7 \in error_code THEN "INVALID_ISA"
  ELSE IF 29 \in error_code THEN "MEMORY_APERTURE_VIOLATION"
  ELSE IF 30 \in error_code THEN "ILLEGAL_INSTRUCTION"
  ELSE IF 31 \in error_code THEN "EXCEPTION"
  ELSE "ERROR"

\* The if/else chain of DynamicScratchHandler<true> (892-925).
DecodeQueueError(error_code) ==
  IF 1 \in error_code THEN "INCOMPATIBLE_ARGUMENTS"
  ELSE IF 2 \in error_code THEN "INVALID_ALLOCATION"
  ELSE IF 3 \in error_code THEN "INVALID_CODE_OBJECT"
  ELSE IF 5 \in error_code \/ 8 \in error_code THEN "INVALID_PACKET_FORMAT"
  ELSE IF 6 \in error_code THEN "INVALID_ARGUMENT"
  ELSE IF 7 \in error_code THEN "INVALID_ISA"
  ELSE IF 29 \in error_code THEN "MEMORY_APERTURE_VIOLATION"
  ELSE IF 30 \in error_code THEN "ILLEGAL_INSTRUCTION"
  ELSE IF 31 \in error_code THEN "EXCEPTION"
  ELSE "ERROR"

\* The table of ExceptionHandler (965-1003).
QueueErrors ==
  << <<1, "EXCEPTION">>, <<2, "EXCEPTION">>, <<3, "EXCEPTION">>,
     <<4, "ILLEGAL_INSTRUCTION">>, <<5, "MEMORY_FAULT">>,
     <<6, "MEMORY_APERTURE_VIOLATION">>, <<16, "INCOMPATIBLE_ARGUMENTS">>,
     <<17, "INVALID_ALLOCATION">>, <<18, "INVALID_CODE_OBJECT">>,
     <<20, "INVALID_PACKET_FORMAT">>, <<21, "INVALID_ARGUMENT">>,
     <<22, "INVALID_ISA">>, <<23, "INVALID_PACKET_FORMAT">>, <<31, "ERROR">>,
     <<33, "MEMORY_APERTURE_VIOLATION">>, <<34, "ERROR">>, <<35, "ERROR">>,
     <<36, "ERROR">>, <<50, "ERROR">> >>

\* The bits of 1 << (code - 1) (1016). The shift is done on a 32-bit int: a
\* count of 32 or more is undefined, and a build either takes the count
\* modulo 32 ("wrap") or yields no bit ("zero").
ShiftModes == {"wrap", "zero"}
ErrorMask(code, mode) ==
  IF code - 1 < 32 THEN {code - 1}
  ELSE IF mode = "wrap" THEN {(code - 1) % 32}
  ELSE {}

RECURSIVE LookupQueueError(_, _, _)
LookupQueueError(error_code, mode, k) ==
  IF k > Len(QueueErrors) THEN "ERROR"
  ELSE IF error_code \cap ErrorMask(QueueErrors[k][1], mode) # {}
       THEN QueueErrors[k][2]
       ELSE LookupQueueError(error_code, mode, k + 1)

RemoveAt(q, i) == [k \in 1 .. Len(q) - 1 |-> IF k < i THEN q[k] ELSE q[k + 1]]

\* --------------------------------------------------------- the environment
\* The command processor stalls the queue on a fault and posts its code.
GpuFault ==
  /\ kmd_destroy_calls = 0
  /\ ~suspended_
  /\ inactive_signal \ RetryValue = Zero
  /\ \E code \in FaultCodes : inactive_signal' = code
  /\ UNCHANGED <<notLife, lifeCfg, dynamicScratchState, exceptionState,
                 exception_signal, scratch_regs, exc_armed, lifeHandlers, dpc,
                 lifeQueue, lifeGhost, lifeInact>>

\* The KFD posts an exception to the word named by ErrorReason (263).
KfdException ==
  /\ supports_exception_debugging
  /\ kmd_destroy_calls = 0
  /\ exception_signal = Zero
  /\ \E code \in ExcCodes : exception_signal' = code
  /\ UNCHANGED <<notLife, lifeCfg, dynamicScratchState, exceptionState,
                 inactive_signal, scratch_regs, exc_armed, lifeHandlers, dpc,
                 lifeQueue, lifeGhost, lifeInact>>

\* The agent tells a queue that waits for scratch to try again
\* (queue_retry is the inactive signal, 284).
AgentRetry ==
  /\ "RETRY" \in dynamicScratchState
  /\ ~signals_destroyed
  /\ ~(RetryValue \subseteq inactive_signal)
  /\ inactive_signal' = inactive_signal \cup RetryValue
  /\ UNCHANGED <<notLife, lifeCfg, dynamicScratchState, exceptionState,
                 exception_signal, scratch_regs, exc_armed, lifeHandlers, dpc,
                 lifeQueue, lifeGhost, lifeInact>>

\* The signal subsystem calls an armed handler whose condition (NE) holds,
\* with the value it saw; the registration is the invocation's until it
\* returns.
DispatchScratch ==
  /\ scratch_handler.pc = "idle"
  /\ \E i \in 1 .. Len(scratch_regs) :
       /\ inactive_signal # scratch_regs[i]
       /\ scratch_handler' = [ScratchHandlerIdle EXCEPT
                                !.pc = "retry_check",
                                !.error_code = inactive_signal,
                                !.reg = scratch_regs[i]]
       /\ scratch_regs' = RemoveAt(scratch_regs, i)
  /\ UNCHANGED <<notLife, lifeCfg, dynamicScratchState, exceptionState,
                 inactive_signal, exception_signal, exc_armed, exc_handler, dpc,
                 lifeQueue, lifeGhost, lifeInact>>

DispatchException ==
  /\ exc_handler.pc = "idle"
  /\ exc_armed
  /\ exception_signal # Zero
  /\ exc_handler' = [ExcHandlerIdle EXCEPT !.pc = "check",
                                            !.error_code = exception_signal]
  /\ exc_armed' = FALSE
  /\ UNCHANGED <<notLife, lifeCfg, dynamicScratchState, exceptionState,
                 inactive_signal, exception_signal, scratch_regs,
                 scratch_handler, dpc, lifeQueue, lifeGhost, lifeInact>>


\* ------------------------------------------------------- Suspend (749-753)
\* A call of hsaKmtUpdateQueue: the queue percentage and the priority passed.
KmdUpdate(percent, priority) ==
  kmd_updates' = Append(kmd_updates, [percent |-> percent, priority |-> priority])

\* Suspend that leaves the flag as it is.
Suspend_NoFlag ==
  /\ UNCHANGED suspended_
  /\ KmdUpdate(0, priority_)

\* Suspend without its body.
Suspend_Skipped ==
  UNCHANGED <<suspended_, kmd_updates>>

\* suspended_ = true; hsaKmtUpdateQueue(queue_id_, 0, priority_, ...).
Suspend ==
  /\ suspended_' = TRUE
  /\ KmdUpdate(0, priority_)

\* --------------------------------- DynamicScratchHandler (775-958), by step
\* What no step of the scratch handler changes.
scratchOwn == <<lifeCfg, exceptionState, exception_signal, exc_armed,
                exc_handler, dpc, lifeInact, active_, kmd_destroy_calls,
                ring_freed, signals_destroyed>>
scratchFrame == <<notLife, scratchOwn>>
\* The same for the steps that rewrite the scratch fields.
scratchFrameSrd == <<notLifeScratch, scratchOwn>>

\* 796-798: the fields of a reclaimed ScratchInfo, without the reset of
\* queue_process_offset.
ReclaimedScratch_KeepOffset(scratch) ==
  [scratch EXCEPT !.queue_base = "nullptr", !.size = 0, !.size_per_thread = 0]

\* 795-799: ReleaseQueueScratch, then the four fields are reset.
ReclaimedScratch(scratch) ==
  [scratch EXCEPT !.queue_base = "nullptr", !.size = 0, !.size_per_thread = 0,
                  !.queue_process_offset = 0]

\* 834 with the wave32 bit ignored.
LanesPerWave_Wave64(error_code) == Wave64

\* 834: (error_code & 0x400) ? 32 : 64.
LanesPerWave(error_code) == IF 10 \in error_code THEN Wave32 ELSE Wave64

\* ceil(a / b) as written at 843, 846-851 and 855.
CeilDiv(a, b) == (a + b - 1) \div b

\* 830-831: a uint32_t product.
MaxScratchSlots(props) == ToUint32((props.max_cu_id + 1) * props.MaxSlotsScratchCU)

\* 816-859: the request computed from the dispatch packet at the read index.
RequestedScratch(scratch, pkt, props, error_code) ==
  LET lanes == LanesPerWave(error_code)
      size_per_thread == AlignUp(pkt.private_segment_size, Kb \div lanes)
      lanes_per_group ==
        pkt.workgroup_size[1] * pkt.workgroup_size[2] * pkt.workgroup_size[3]
      waves_per_group == CeilDiv(lanes_per_group, lanes)
      groups ==
        CeilDiv(pkt.grid_size[1], pkt.workgroup_size[1])
          * CeilDiv(pkt.grid_size[2], pkt.workgroup_size[2])
          * CeilDiv(pkt.grid_size[3], pkt.workgroup_size[3])
      engines == props.NumShaderBanks
      wanted_slots ==
        Min(CeilDiv(groups, engines) * engines * waves_per_group,
            MaxScratchSlots(props))
  IN  [scratch EXCEPT
         !.size_per_thread = size_per_thread,
         !.lanes_per_wave = lanes,
         !.size = size_per_thread * MaxScratchSlots(props) * lanes,
         !.waves_per_group = waves_per_group,
         !.wanted_slots = wanted_slots,
         !.dispatch_size = size_per_thread * wanted_slots * lanes]

\* agent_->AcquireQueueScratch(scratch) (861): the agent asks to retry, has no
\* memory, or grants the request at some offset of its pool, as a large
\* allocation from the size large_from on.
AcquireQueueScratch(scratch, props, outcome) ==
  IF outcome = "retry"
  THEN [scratch EXCEPT !.queue_base = "nullptr", !.retry = TRUE]
  ELSE IF outcome = "fail"
  THEN [scratch EXCEPT !.queue_base = "nullptr", !.retry = FALSE]
  ELSE [scratch EXCEPT !.queue_base = "base", !.retry = FALSE,
                       !.queue_process_offset = 1,
                       !.large = (scratch.size >= props.large_from)]

\* 866 with the wait value of 786.
RetryWaitValue_Zero(error_code) == Zero

\* 866: waitVal = error_code.
RetryWaitValue(error_code) == error_code

\* 288-305: the constructor registers DynamicScratchHandler<false> when the
\* KFD supports exception debugging, DynamicScratchHandler<true> otherwise.
HandleExceptions_Always == TRUE
HandleExceptions == ~supports_exception_debugging

\* 783-786: a retry is pending.
H_RetryCheck ==
  /\ scratch_handler.pc = "retry_check"
  /\ IF "RETRY" \in dynamicScratchState
     THEN /\ dynamicScratchState' = dynamicScratchState \ {"RETRY"}
          /\ scratch_handler' = [scratch_handler EXCEPT !.pc = "retry_and",
                                                        !.changeWait = TRUE,
                                                        !.waitVal = Zero]
     ELSE /\ scratch_handler' = [scratch_handler EXCEPT !.pc = "term_check"]
          /\ UNCHANGED dynamicScratchState
  /\ QueueAccess(dynamicScratchState)
  /\ UNCHANGED <<scratchFrame, inactive_signal, scratch_regs, suspended_,
                 scratch_held, callbacks>>

\* 787-788: the retry bit is cleared in the signal and in the local value.
H_RetryAnd ==
  /\ scratch_handler.pc = "retry_and"
  /\ inactive_signal' = inactive_signal \ RetryValue
  /\ scratch_handler' = [scratch_handler EXCEPT
                           !.pc = "term_check",
                           !.error_code = scratch_handler.error_code \ RetryValue]
  /\ QueueAccess(dynamicScratchState)
  /\ UNCHANGED <<scratchFrame, dynamicScratchState, scratch_regs, suspended_,
                 scratch_held, callbacks>>

\* 792 with the test left out.
Terminating_Never(state) == FALSE

\* 792: (dynamicScratchState & ERROR_HANDLER_TERMINATE) == ERROR_HANDLER_TERMINATE.
Terminating(state) == "TERMINATE" \in state

\* 792: errors are processed only if the queue is not terminating.
H_TermCheck ==
  /\ scratch_handler.pc = "term_check"
  /\ scratch_handler' = [scratch_handler EXCEPT
                           !.pc = IF Terminating(dynamicScratchState)
                                  THEN "copy" ELSE "process"]
  /\ QueueAccess(dynamicScratchState)
  /\ UNCHANGED <<scratchFrame, dynamicScratchState, inactive_signal,
                 scratch_regs, suspended_, scratch_held, callbacks>>

\* 793-800: large scratch reclaim; the scratch is released and the SRD rebuilt.
H_Reclaim ==
  /\ scratch_handler.pc = "process"
  /\ scratch_handler.error_code = ReclaimCode
  /\ scratch_held' = FALSE
  /\ queue_scratch_' = ReclaimedScratch(queue_scratch_)
  /\ scratch_srd' = InitScratchSRD(queue_scratch_', agent_props)
  /\ scratch_handler' = [scratch_handler EXCEPT !.pc = "reclaim_store"]
  /\ QueueAccess(dynamicScratchState)
  /\ UNCHANGED <<scratchFrameSrd, dynamicScratchState, inactive_signal,
                 scratch_regs, suspended_, callbacks, queue_properties>>

\* 802-808: the queue is resumed, USE_SCRATCH_ONCE is cleared and the handler
\* stays armed as it was.
H_ReclaimStore ==
  /\ scratch_handler.pc = "reclaim_store"
  /\ inactive_signal' = Zero
  /\ queue_properties' = queue_properties \ {"USE_SCRATCH_ONCE"}
  /\ scratch_regs' = Append(scratch_regs, scratch_handler.reg)
  /\ scratch_handler' = ScratchHandlerIdle
  /\ QueueAccess(dynamicScratchState)
  /\ UNCHANGED <<scratchFrameSrd, dynamicScratchState, suspended_, scratch_held,
                 callbacks, queue_scratch_, scratch_srd>>

\* 812-871: insufficient scratch; the agent grants, refuses, or asks to retry.
H_Scratch ==
  /\ scratch_handler.pc = "process"
  /\ scratch_handler.error_code # ReclaimCode
  /\ scratch_handler.error_code \cap InsufficientScratch # {}
  /\ \E outcome \in ScratchOutcomes :
       /\ scratch_held' = (outcome = "ok")
       /\ queue_scratch_' =
            AcquireQueueScratch(
              RequestedScratch(queue_scratch_, dispatch_pkt, agent_props,
                               scratch_handler.error_code),
              agent_props, outcome)
       /\ dynamicScratchState' =
            IF outcome = "retry" THEN dynamicScratchState \cup {"RETRY"}
            ELSE dynamicScratchState
       /\ scratch_handler' =
            IF outcome = "retry"
            THEN [scratch_handler EXCEPT !.pc = "tail", !.changeWait = TRUE,
                                         !.waitVal =
                                           RetryWaitValue(scratch_handler.error_code)]
            ELSE IF outcome = "fail"
            THEN [scratch_handler EXCEPT !.pc = "tail",
                                         !.errorCode = "OUT_OF_RESOURCES"]
            ELSE [scratch_handler EXCEPT !.pc = "restart"]
  /\ QueueAccess(dynamicScratchState)
  /\ UNCHANGED <<scratchFrameSrd, inactive_signal, scratch_regs, suspended_,
                 callbacks, scratch_srd, queue_properties>>

\* 872-887: a large allocation is marked for single use, the SRD is rebuilt
\* and the queue restarted.
H_Restart ==
  /\ scratch_handler.pc = "restart"
  /\ queue_properties' =
       (IF queue_scratch_.large THEN queue_properties \cup {"USE_SCRATCH_ONCE"}
        ELSE queue_properties)
  /\ scratch_srd' = InitScratchSRD(queue_scratch_, agent_props)
  /\ inactive_signal' = Zero
  /\ scratch_handler' = [scratch_handler EXCEPT !.pc = "tail"]
  /\ QueueAccess(dynamicScratchState)
  /\ UNCHANGED <<scratchFrameSrd, dynamicScratchState, scratch_regs, suspended_,
                 scratch_held, callbacks, queue_scratch_>>

\* 891-925: DynamicScratchHandler<true> maps the code to a status.
H_Decode ==
  /\ scratch_handler.pc = "process"
  /\ scratch_handler.error_code # ReclaimCode
  /\ scratch_handler.error_code \cap InsufficientScratch = {}
  /\ HandleExceptions
  /\ scratch_handler' = [scratch_handler EXCEPT
                           !.pc = "tail",
                           !.errorCode = DecodeQueueError(scratch_handler.error_code)]
  /\ UNCHANGED <<scratchFrame, dynamicScratchState, inactive_signal,
                 scratch_regs, suspended_, scratch_held, callbacks, lifeGhost>>

\* 926-929: DynamicScratchHandler<false> clears the signal.
H_NotHandled ==
  /\ scratch_handler.pc = "process"
  /\ scratch_handler.error_code # ReclaimCode
  /\ scratch_handler.error_code \cap InsufficientScratch = {}
  /\ ~HandleExceptions
  /\ inactive_signal' = Zero
  /\ scratch_handler' = [scratch_handler EXCEPT !.pc = "tail"]
  /\ QueueAccess(dynamicScratchState)
  /\ UNCHANGED <<scratchFrame, dynamicScratchState, scratch_regs, suspended_,
                 scratch_held, callbacks>>

\* The registrations after SetAsyncSignalHandler (933-935) had the
\* invocation returned true.
RearmAndUnarm_ReturnsTrue(regs, handler) ==
  Append(Append(regs, handler.waitVal), handler.reg)

\* The registrations after SetAsyncSignalHandler (933-935) and return false
\* (936): the new one, without the invocation's own.
RearmAndUnarm(regs, handler) ==
  Append(regs, handler.waitVal)

\* 931-936: the handler is registered again with the new wait value and the
\* invocation's registration is dropped.
H_Rearm ==
  /\ scratch_handler.pc = "tail"
  /\ scratch_handler.errorCode = "SUCCESS"
  /\ scratch_handler.changeWait
  /\ scratch_regs' = RearmAndUnarm(scratch_regs, scratch_handler)
  /\ scratch_handler' = ScratchHandlerIdle
  /\ QueueAccess(dynamicScratchState)
  /\ UNCHANGED <<scratchFrame, dynamicScratchState, inactive_signal, suspended_,
                 scratch_held, callbacks>>

\* 938: the handler stays armed.
H_KeepArmed ==
  /\ scratch_handler.pc = "tail"
  /\ scratch_handler.errorCode = "SUCCESS"
  /\ ~scratch_handler.changeWait
  /\ scratch_regs' = Append(scratch_regs, scratch_handler.reg)
  /\ scratch_handler' = ScratchHandlerIdle
  /\ UNCHANGED <<scratchFrame, dynamicScratchState, inactive_signal, suspended_,
                 scratch_held, callbacks, lifeGhost>>

\* 941 (749-753): Suspend.
H_Suspend ==
  /\ scratch_handler.pc = "tail"
  /\ scratch_handler.errorCode # "SUCCESS"
  /\ Suspend
  /\ scratch_handler' = [scratch_handler EXCEPT !.pc = "callback"]
  /\ QueueAccess(dynamicScratchState)
  /\ UNCHANGED <<notLifeSuspend, scratchOwn, dynamicScratchState, inactive_signal,
                 scratch_regs, scratch_held, callbacks>>

\* 942-944: the user's error callback.
H_Callback ==
  /\ scratch_handler.pc = "callback"
  /\ callbacks' = Append(callbacks, scratch_handler.errorCode)
  /\ scratch_handler' = [scratch_handler EXCEPT !.pc = "copy"]
  /\ QueueAccess(dynamicScratchState)
  /\ UNCHANGED <<scratchFrame, dynamicScratchState, inactive_signal,
                 scratch_regs, suspended_, scratch_held>>

\* 954.
H_Copy ==
  /\ scratch_handler.pc = "copy"
  /\ scratch_handler' = [CopySignalHandle(scratch_handler) EXCEPT !.pc = "done"]
  /\ QueueAccess(dynamicScratchState)
  /\ UNCHANGED <<scratchFrame, dynamicScratchState, inactive_signal,
                 scratch_regs, suspended_, scratch_held, callbacks>>

\* 955.
H_Done ==
  /\ scratch_handler.pc = "done"
  /\ dynamicScratchState' = {"DONE"}
  /\ scratch_handler' = [scratch_handler EXCEPT !.pc = "store"]
  /\ QueueAccess(dynamicScratchState)
  /\ UNCHANGED <<scratchFrame, inactive_signal, scratch_regs, suspended_,
                 scratch_held, callbacks>>

\* 956-957: the store of -1, and the handler is not armed again.
H_Store ==
  /\ scratch_handler.pc = "store"
  /\ inactive_signal' = AllOnes
  /\ scratch_handler' = ScratchHandlerIdle
  /\ FinalStoreAccess(scratch_handler, dynamicScratchState)
  /\ UNCHANGED <<scratchFrame, dynamicScratchState, scratch_regs, suspended_,
                 scratch_held, callbacks>>

DynamicScratchHandler ==
  \/ H_RetryCheck \/ H_RetryAnd \/ H_TermCheck
  \/ H_Reclaim \/ H_ReclaimStore
  \/ H_Scratch \/ H_Restart
  \/ H_Decode \/ H_NotHandled
  \/ H_Rearm \/ H_KeepArmed
  \/ H_Suspend \/ H_Callback
  \/ H_Copy \/ H_Done \/ H_Store

\* ------------------------------------- ExceptionHandler (960-1033), by step
excOwn == <<lifeCfg, dynamicScratchState, inactive_signal, scratch_regs,
            exc_armed, scratch_handler, dpc, lifeInact, active_,
            kmd_destroy_calls, scratch_held, ring_freed, signals_destroyed>>
excFrame == <<notLife, excOwn>>

\* 1008: equality with TERMINATE, not a test of the bit.
E_Check ==
  /\ exc_handler.pc = "check"
  /\ exc_handler' = [exc_handler EXCEPT
                       !.pc = IF exceptionState = {"TERMINATE"}
                              THEN "copy" ELSE "decode"]
  /\ QueueAccess(exceptionState)
  /\ UNCHANGED <<excFrame, exceptionState, exception_signal, suspended_,
                 callbacks>>

\* 1015-1020.
E_Decode ==
  /\ exc_handler.pc = "decode"
  /\ \E mode \in ShiftModes :
       exc_handler' = [exc_handler EXCEPT
                         !.pc = "suspend",
                         !.errorCode = LookupQueueError(exc_handler.error_code,
                                                        mode, 1)]
  /\ UNCHANGED <<excFrame, exceptionState, exception_signal, suspended_,
                 callbacks, lifeGhost>>

\* 1025 (749-753).
E_Suspend ==
  /\ exc_handler.pc = "suspend"
  /\ Suspend
  /\ exc_handler' = [exc_handler EXCEPT !.pc = "callback"]
  /\ QueueAccess(exceptionState)
  /\ UNCHANGED <<excOwn, notLifeSuspend, exceptionState, exception_signal, callbacks>>

\* 1026-1028.
E_Callback ==
  /\ exc_handler.pc = "callback"
  /\ callbacks' = Append(callbacks, exc_handler.errorCode)
  /\ exc_handler' = [exc_handler EXCEPT !.pc = "copy"]
  /\ QueueAccess(exceptionState)
  /\ UNCHANGED <<excFrame, exceptionState, exception_signal, suspended_>>

\* 1009, 1029.
E_Copy ==
  /\ exc_handler.pc = "copy"
  /\ exc_handler' = [CopySignalHandle(exc_handler) EXCEPT !.pc = "done"]
  /\ QueueAccess(exceptionState)
  /\ UNCHANGED <<excFrame, exceptionState, exception_signal, suspended_,
                 callbacks>>

\* 1010, 1030.
E_Done ==
  /\ exc_handler.pc = "done"
  /\ exceptionState' = {"DONE"}
  /\ exc_handler' = [exc_handler EXCEPT !.pc = "store"]
  /\ QueueAccess(exceptionState)
  /\ UNCHANGED <<excFrame, exception_signal, suspended_, callbacks>>

\* 1011-1012, 1031-1032.
E_Store ==
  /\ exc_handler.pc = "store"
  /\ exception_signal' = Zero
  /\ exc_handler' = ExcHandlerIdle
  /\ FinalStoreAccess(exc_handler, exceptionState)
  /\ UNCHANGED <<excFrame, exceptionState, suspended_, callbacks>>

ExceptionHandler ==
  \/ E_Check \/ E_Decode \/ E_Suspend \/ E_Callback
  \/ E_Copy \/ E_Done \/ E_Store


\* ------------------------------------------------ Inactivate (755-763)
\* active_.exchange(false): what active_ holds afterwards.
ActiveAfterExchange_Load == active_
ActiveAfterExchange == FALSE

\* 756-757, and 762 when the queue was not active.
I_Exchange(t) ==
  /\ ipc[t] = "idle"
  /\ dpc = "live"
  /\ active_' = ActiveAfterExchange
  /\ IF active_
     THEN /\ ipc' = [ipc EXCEPT ![t] = "destroy"]
          /\ inact_ret' = [inact_ret EXCEPT ![t] = "none"]
     ELSE /\ inact_ret' = [inact_ret EXCEPT ![t] = "SUCCESS"]
          /\ UNCHANGED ipc
  /\ UNCHANGED <<notLife, lifeCfg, lifeSignals, lifeHandlers, dpc, suspended_,
                 kmd_destroy_calls, scratch_held, ring_freed, signals_destroyed,
                 callbacks, lifeGhost>>

\* 758-762.
I_KmdDestroy(t) ==
  /\ ipc[t] = "destroy"
  /\ kmd_destroy_calls' = kmd_destroy_calls + 1
  /\ ipc' = [ipc EXCEPT ![t] = "idle"]
  /\ inact_ret' = [inact_ret EXCEPT ![t] = "SUCCESS"]
  /\ UNCHANGED <<notLife, lifeCfg, lifeSignals, lifeHandlers, dpc, active_,
                 suspended_, scratch_held, ring_freed, signals_destroyed,
                 callbacks, lifeGhost>>

Inactivate(t) == I_Exchange(t) \/ I_KmdDestroy(t)

\* ------------------------------------- the queue event's reference (349-356)
\* queue_count_--, and the event is destroyed with the last reference.
ReleaseEventRef ==
  /\ queue_count_' = queue_count_ - 1
  /\ queue_event_' = IF queue_count_ - 1 = 0 THEN nullptr ELSE queue_event_

\* ------------------------------------------- Destroy and ~AqlQueue (327-366)
\* What the steps of the destructor before line 349 leave alone.
dtorFrame == <<restVars, dbVars, evVars, lifeCfg, scratch_regs, exc_armed, lifeHandlers,
               suspended_, callbacks, lifeGhost, lifeInact>>

\* The calls of agent.GWSRelease, and of EnableGWS, that a behaviour makes.
MaxGwsCalls == 2

\* 361 with the test left out.
IsCooperative_Never(type) == FALSE

\* 361: amd_queue_.hsa_queue.type == HSA_QUEUE_TYPE_COOPERATIVE.
IsCooperative(type) == type = "COOPERATIVE"

\* 360-365: a cooperative queue goes back to the agent; any other queue is
\* deleted, and the destructor begins by setting TERMINATE (330).
Destroy ==
  /\ dpc = "live"
  /\ IF IsCooperative(hsa_queue_type)
     THEN /\ gws_release_calls < MaxGwsCalls
          /\ gws_release_calls' = gws_release_calls + 1
          /\ UNCHANGED <<dpc, dynamicScratchState>>
     ELSE /\ dynamicScratchState' = dynamicScratchState \cup {"TERMINATE"}
          /\ dpc' = "chk1"
          /\ UNCHANGED gws_release_calls
  /\ UNCHANGED <<ctorVars, pm4Vars, prioVars, cuVars, srdVars, ringVars,
                 hsa_queue_type, enable_gws_ret, dbVars, evVars, lifeCfg,
                 scratch_regs, exc_armed, lifeHandlers, suspended_, callbacks,
                 lifeGhost, lifeInact, exceptionState, inactive_signal,
                 exception_signal, active_, kmd_destroy_calls, scratch_held,
                 ring_freed, signals_destroyed>>

\* 1330-1336: hsaKmtAllocQueueGWS succeeds or fails; the type changes only
\* when it succeeds.
EnableGWS ==
  /\ dpc = "live"
  /\ Len(enable_gws_ret) < MaxGwsCalls
  /\ \E status \in {"HSAKMT_STATUS_SUCCESS", "HSAKMT_STATUS_ERROR"} :
       IF status # "HSAKMT_STATUS_SUCCESS"
       THEN /\ enable_gws_ret' = Append(enable_gws_ret, "OUT_OF_RESOURCES")
            /\ UNCHANGED hsa_queue_type
       ELSE /\ hsa_queue_type' = "COOPERATIVE"
            /\ enable_gws_ret' = Append(enable_gws_ret, "SUCCESS")
  /\ UNCHANGED <<dbVars, lifeVars, evVars, ctorVars, pm4Vars, prioVars, cuVars,
                 srdVars, ringVars, gws_release_calls>>

\* 331.
D_Check1 ==
  /\ dpc = "chk1"
  /\ dpc' = IF HandlerDone(dynamicScratchState) THEN "term2" ELSE "pulse1"
  /\ UNCHANGED <<dtorFrame, lifeSignals, active_, kmd_destroy_calls,
                 scratch_held, ring_freed, signals_destroyed>>

\* 332.
D_Pulse1 ==
  /\ dpc = "pulse1"
  /\ inactive_signal' = RetryValue
  /\ dpc' = "wait1"
  /\ UNCHANGED <<dtorFrame, dynamicScratchState, exceptionState,
                 exception_signal, active_, kmd_destroy_calls, scratch_held,
                 ring_freed, signals_destroyed>>

\* 333-334: a wait without timeout for a value other than the one stored.
D_Wait1 ==
  /\ dpc = "wait1"
  /\ inactive_signal # RetryValue
  /\ dpc' = "chk1"
  /\ UNCHANGED <<dtorFrame, lifeSignals, active_, kmd_destroy_calls,
                 scratch_held, ring_freed, signals_destroyed>>

\* 338.
D_Terminate2 ==
  /\ dpc = "term2"
  /\ exceptionState' = exceptionState \cup {"TERMINATE"}
  /\ dpc' = "chk2"
  /\ UNCHANGED <<dtorFrame, dynamicScratchState, inactive_signal,
                 exception_signal, active_, kmd_destroy_calls, scratch_held,
                 ring_freed, signals_destroyed>>

\* 339.
D_Check2 ==
  /\ dpc = "chk2"
  /\ dpc' = IF HandlerDone(exceptionState) THEN "inact" ELSE "pulse2"
  /\ UNCHANGED <<dtorFrame, lifeSignals, active_, kmd_destroy_calls,
                 scratch_held, ring_freed, signals_destroyed>>

\* 340.
D_Pulse2 ==
  /\ dpc = "pulse2"
  /\ exception_signal' = AllOnes
  /\ dpc' = "wait2"
  /\ UNCHANGED <<dtorFrame, dynamicScratchState, exceptionState,
                 inactive_signal, active_, kmd_destroy_calls, scratch_held,
                 ring_freed, signals_destroyed>>

\* 341.
D_Wait2 ==
  /\ dpc = "wait2"
  /\ exception_signal # AllOnes
  /\ dpc' = "chk2"
  /\ UNCHANGED <<dtorFrame, lifeSignals, active_, kmd_destroy_calls,
                 scratch_held, ring_freed, signals_destroyed>>

\* 344, 756-757.
D_Inactivate ==
  /\ dpc = "inact"
  /\ active_' = ActiveAfterExchange
  /\ dpc' = IF active_ THEN "kmd" ELSE "scratch"
  /\ UNCHANGED <<dtorFrame, lifeSignals, kmd_destroy_calls, scratch_held,
                 ring_freed, signals_destroyed>>

\* 758.
D_KmdDestroy ==
  /\ dpc = "kmd"
  /\ kmd_destroy_calls' = kmd_destroy_calls + 1
  /\ dpc' = "scratch"
  /\ UNCHANGED <<dtorFrame, lifeSignals, active_, scratch_held, ring_freed,
                 signals_destroyed>>

\* 345.
D_ReleaseScratch ==
  /\ dpc = "scratch"
  /\ scratch_held' = FALSE
  /\ dpc' = "ring"
  /\ UNCHANGED <<dtorFrame, lifeSignals, active_, kmd_destroy_calls, ring_freed,
                 signals_destroyed>>

\* 346.
D_FreeRing ==
  /\ dpc = "ring"
  /\ ring_freed' = TRUE
  /\ dpc' = "signals"
  /\ UNCHANGED <<dtorFrame, lifeSignals, active_, kmd_destroy_calls,
                 scratch_held, signals_destroyed>>

\* 347-348.
D_DestroySignals ==
  /\ dpc = "signals"
  /\ signals_destroyed' = TRUE
  /\ dpc' = "event"
  /\ UNCHANGED <<dtorFrame, lifeSignals, active_, kmd_destroy_calls,
                 scratch_held, ring_freed>>

\* 349-350.
D_EventLock ==
  /\ dpc = "event"
  /\ IF g_use_interrupt_wait
     THEN /\ queue_lock_ = 0
          /\ queue_lock_' = DtorId
          /\ dpc' = "event_dec"
     ELSE /\ dpc' = "pm4"
          /\ UNCHANGED queue_lock_
  /\ UNCHANGED <<restVars, dbVars, lifeCfg, lifeSignals, lifeHandlers, lifeQueue,
                 lifeGhost, lifeInact, g_use_interrupt_wait, queue_count_,
                 queue_event_, event_assert_failed, cpc>>

\* 351-356.
D_EventRelease ==
  /\ dpc = "event_dec"
  /\ ReleaseEventRef
  /\ queue_lock_' = 0
  /\ dpc' = "pm4"
  /\ UNCHANGED <<restVars, dbVars, lifeCfg, lifeSignals, lifeHandlers, lifeQueue,
                 lifeGhost, lifeInact, g_use_interrupt_wait,
                 event_assert_failed, cpc>>

\* 357, and the delete of 365 returns the object's memory.
D_Free ==
  /\ dpc = "pm4"
  /\ dpc' = "freed"
  /\ UNCHANGED <<dtorFrame, lifeSignals, lifeQueue>>

Destructor ==
  \/ D_Check1 \/ D_Pulse1 \/ D_Wait1
  \/ D_Terminate2 \/ D_Check2 \/ D_Pulse2 \/ D_Wait2
  \/ D_Inactivate \/ D_KmdDestroy
  \/ D_ReleaseScratch \/ D_FreeRing \/ D_DestroySignals
  \/ D_EventLock \/ D_EventRelease \/ D_Free

\* The queue's doorbell side at rest.
DbIdle ==
  /\ doorbell_type_ = 2
  /\ large_model = FALSE
  /\ queue_full_workaround_ = 1
  /\ waits_for_slot = FALSE
  /\ InitQueueRecord
  /\ pc = [t \in Threads |-> "off"]
  /\ val = [t \in Threads |-> 0]
  /\ legacy_dispatch_id = [t \in Threads |-> 0]
  /\ idx = [t \in Threads |-> 0]
  /\ script_pos = 0

InitLife ==
  /\ DbIdle
  /\ supports_exception_debugging \in BOOLEAN
  /\ LifeConstructed
  /\ RestIdle
  /\ EventOneQueue

\* The runtime's own steps: the signal subsystem, the handlers, the destructor.
RuntimeStep ==
  \/ DispatchScratch
  \/ DynamicScratchHandler
  \/ DispatchException
  \/ ExceptionHandler
  \/ Destructor

NextLife ==
  \/ GpuFault
  \/ KfdException
  \/ AgentRetry
  \/ \E t \in InactCallers : Inactivate(t)
  \/ Destroy
  \/ RuntimeStep

SpecLife == InitLife /\ [][NextLife]_vars

\* The runtime's steps are taken when they can be: the dispatcher runs every
\* armed handler whose condition holds, and a thread that can run does.
FairLife ==
  /\ SpecLife
  /\ WF_vars(Destructor)
  /\ WF_vars(DispatchScratch \/ DynamicScratchHandler)
  /\ WF_vars(DispatchException \/ ExceptionHandler)


\* =========================================== the shared queue event (216-254)
\* Each thread constructs a queue, which may fail, and destroys it; of the
\* constructor and the destructor only the steps that touch the static
\* members queue_lock_, queue_count_ and queue_event_ are kept apart, the
\* rest of either touches none of them.
evFrame == <<restVars, dbVars, lifeVars, g_use_interrupt_wait>>

\* 231-235: the lock is taken and the queue counted.
C_Enter(q) ==
  /\ cpc[q] = "none"
  /\ g_use_interrupt_wait
  /\ queue_lock_ = 0
  /\ queue_lock_' = q
  /\ queue_count_' = queue_count_ + 1
  /\ event_assert_failed' =
       (event_assert_failed \/ (queue_event_ = nullptr /\ queue_count_ + 1 # 1))
  /\ cpc' = [cpc EXCEPT ![q] = IF queue_event_ = nullptr THEN "create"
                               ELSE "signals"]
  /\ UNCHANGED <<evFrame, queue_event_>>

\* 237-240: CreateEvent gives an event or nullptr, and nullptr is thrown on.
C_CreateEvent(q) ==
  /\ cpc[q] = "create"
  /\ \E created \in BOOLEAN :
       IF created
       THEN /\ queue_event_' = <<q>>
            /\ cpc' = [cpc EXCEPT ![q] = "signals"]
       ELSE /\ cpc' = [cpc EXCEPT ![q] = "unwind"]
            /\ UNCHANGED queue_event_
  /\ UNCHANGED <<evFrame, queue_lock_, queue_count_, event_assert_failed>>

\* 242-247: the signals are made and the block's lock released.
C_Signals(q) ==
  /\ cpc[q] = "signals"
  /\ queue_lock_' = 0
  /\ cpc' = [cpc EXCEPT ![q] = "rest"]
  /\ UNCHANGED <<evFrame, queue_count_, queue_event_, event_assert_failed>>

\* The throw of 239 leaves the block of 231: _lock, the innermost local, is
\* destroyed first, and the guards of the constructor's body after it.
C_Unwind(q) ==
  /\ cpc[q] = "unwind"
  /\ queue_lock_' = 0
  /\ cpc' = [cpc EXCEPT ![q] = "guard"]
  /\ UNCHANGED <<evFrame, queue_count_, queue_event_, event_assert_failed>>

\* 248: without interrupts the guard is dismissed and no event is used.
C_NoInterrupt(q) ==
  /\ cpc[q] = "none"
  /\ ~g_use_interrupt_wait
  /\ cpc' = [cpc EXCEPT ![q] = "rest"]
  /\ UNCHANGED <<evFrame, queue_lock_, queue_count_, queue_event_,
                 event_assert_failed>>

\* 261-324: the rest of construction succeeds, or throws (270, 291, 296,
\* 302, 311) and the guards run.
C_Rest(q) ==
  /\ cpc[q] = "rest"
  /\ \E ok \in BOOLEAN :
       cpc' = [cpc EXCEPT ![q] = IF ok THEN "constructed"
                                 ELSE IF g_use_interrupt_wait THEN "guard"
                                 ELSE "none"]
  /\ UNCHANGED <<evFrame, queue_lock_, queue_count_, queue_event_,
                 event_assert_failed>>

\* 216-217: EventGuard takes the lock.
C_GuardLock(q) ==
  /\ cpc[q] = "guard"
  /\ queue_lock_ = 0
  /\ queue_lock_' = q
  /\ cpc' = [cpc EXCEPT ![q] = "guard_dec"]
  /\ UNCHANGED <<evFrame, queue_count_, queue_event_, event_assert_failed>>

\* 218-223.
C_GuardRelease(q) ==
  /\ cpc[q] = "guard_dec"
  /\ ReleaseEventRef
  /\ queue_lock_' = 0
  /\ cpc' = [cpc EXCEPT ![q] = "none"]
  /\ UNCHANGED <<evFrame, event_assert_failed>>

\* ~AqlQueue, 349-350; without interrupts the destructor uses no event.
Q_DestroyLock(q) ==
  /\ cpc[q] = "constructed"
  /\ IF g_use_interrupt_wait
     THEN /\ queue_lock_ = 0
          /\ queue_lock_' = q
          /\ cpc' = [cpc EXCEPT ![q] = "destroy_dec"]
     ELSE /\ cpc' = [cpc EXCEPT ![q] = "none"]
          /\ UNCHANGED queue_lock_
  /\ UNCHANGED <<evFrame, queue_count_, queue_event_, event_assert_failed>>

\* ~AqlQueue, 351-356.
Q_DestroyRelease(q) ==
  /\ cpc[q] = "destroy_dec"
  /\ ReleaseEventRef
  /\ queue_lock_' = 0
  /\ cpc' = [cpc EXCEPT ![q] = "none"]
  /\ UNCHANGED <<evFrame, event_assert_failed>>

InitEvent ==
  /\ DbIdle
  /\ supports_exception_debugging = FALSE
  /\ LifeConstructed
  /\ RestIdle
  /\ g_use_interrupt_wait \in BOOLEAN
  /\ queue_lock_ = 0
  /\ queue_count_ = 0
  /\ queue_event_ = nullptr
  /\ event_assert_failed = FALSE
  /\ cpc = [q \in QueueThreads |-> "none"]

NextEvent ==
  \E q \in QueueThreads :
    \/ C_Enter(q) \/ C_CreateEvent(q) \/ C_Signals(q) \/ C_Unwind(q)
    \/ C_NoInterrupt(q) \/ C_Rest(q) \/ C_GuardLock(q) \/ C_GuardRelease(q)
    \/ Q_DestroyLock(q) \/ Q_DestroyRelease(q)

SpecEvent == InitEvent /\ [][NextEvent]_vars

\* ------------------------------------------------------------------- C6
DtorTeardown == {"inact", "kmd", "scratch", "ring", "signals", "event",
                 "event_dec", "pm4", "freed"}

\* C6: whenever the destructor is at or past its call of Inactivate, and so
\* before the KMD queue is destroyed, the scratch released or the ring
\* freed, both handler states hold DONE.
C6_DoneBeforeTeardown ==
  (dpc \in DtorTeardown \/ ring_freed \/ signals_destroyed)
    => ("DONE" \in dynamicScratchState /\ "DONE" \in exceptionState)

\* The destructor has waited for both handlers of a queue with exception
\* debugging and has destroyed the KMD queue.
C6_Witness ==
  /\ supports_exception_debugging
  /\ dpc = "scratch"
  /\ kmd_destroy_calls = 1
  /\ callbacks # <<>>

\* ------------------------------------------------------------------- C7
\* C7: once the destructor has set TERMINATE, and until the object is freed,
\* some step of the runtime (dispatcher, handler or destructor) can be taken:
\* destruction is never stuck.
C7_NeverStuck ==
  (dpc \notin {"live", "freed"}) => ENABLED RuntimeStep

\* C7, as a progress property under FairLife: a started destruction ends.
C7_Terminates == (dpc # "live") ~> (dpc = "freed")

\* ------------------------------------------------------------------- C8
\* C8: no handler step reads or writes a queue field once that handler has
\* written DONE, nor once the queue is freed; after DONE a handler is at its
\* final store, holding the copied handle, or has returned, and is not armed.
C8_NoQueueAccessAfterDone ==
  /\ ~access_after_done
  /\ ~access_after_free
  /\ "DONE" \in dynamicScratchState =>
       /\ scratch_handler.pc \in {"idle", "store"}
       /\ scratch_handler.pc = "store" => scratch_handler.signal
       /\ scratch_regs = <<>>
  /\ "DONE" \in exceptionState =>
       /\ exc_handler.pc \in {"idle", "store"}
       /\ exc_handler.pc = "store" => exc_handler.signal
       /\ ~exc_armed

\* The queue is freed while both handlers have their final store to do.
C8_Witness ==
  /\ dpc = "freed"
  /\ scratch_handler.pc = "store"
  /\ exc_handler.pc = "store"

\* ------------------------------------------------------------------- C9
PendingDestroys ==
  Cardinality({t \in InactCallers : ipc[t] = "destroy"})
    + (IF dpc = "kmd" THEN 1 ELSE 0)

\* C9: hsaKmtDestroyQueue is called at most once, and exactly once when the
\* call that found active_ true has finished; a call that finds active_
\* false changes nothing of the queue and returns HSA_STATUS_SUCCESS.
C9_DestroyOnce ==
  [][/\ kmd_destroy_calls' + PendingDestroys' = (IF active_' THEN 0 ELSE 1)
     /\ \A t \in InactCallers :
          (inact_ret'[t] # inact_ret[t] /\ ipc[t] = "idle" /\ ipc'[t] = "idle")
            => /\ inact_ret'[t] = "SUCCESS"
               /\ UNCHANGED <<active_, kmd_destroy_calls, lifeSignals, dpc,
                              suspended_>>
     /\ \A t \in InactCallers : inact_ret'[t] \in {"none", "SUCCESS"}]_vars

\* Both callers and the destructor have called Inactivate; one call destroyed.
C9_Witness ==
  /\ \A t \in InactCallers : inact_ret[t] = "SUCCESS" /\ ipc[t] = "idle"
  /\ dpc = "freed"
  /\ kmd_destroy_calls = 1

\* ------------------------------------------------------------------- C10
\* C10: in interrupt mode, whenever queue_lock_ is not held, the event is
\* non-null exactly when queues are counted.
C10_EventIffCount ==
  (g_use_interrupt_wait /\ queue_lock_ = 0)
    => ((queue_event_ # nullptr) <=> (queue_count_ > 0))


\* =========================================================================
\* The constructor (81-325): sizing, the acquisitions in their order, and the
\* scope guards that undo them when a later step throws.
\* =========================================================================

\* 507-527, the Linux build.
ComputeRingBufferMinPkts(qfw) ==
  LET min_bytes == 2 ^ MinBytesLog2
  IN  (IF qfw = 1 THEN Max(min_bytes, 2 ^ PageLog2) ELSE min_bytes)
        \div PacketBytes

\* 529-541: max_bytes is a uint64_t, the quotient is converted to uint32_t.
ComputeRingBufferMaxPkts(qfw) ==
  LET max_bytes == Uint32Modulus
  IN  ToUint32((IF qfw = 1 THEN max_bytes \div 2 ELSE max_bytes)
                 \div PacketBytes)

\* 122-124 without the clamp of 123-124.
QueueSizePkts_NoClamp(req, qfw) ==
  ToUint32(req)

\* 122-124 without the conversion of 122.
QueueSizePkts_NoTruncate(req, qfw) ==
  Max(Min(req, ComputeRingBufferMaxPkts(qfw)), ComputeRingBufferMinPkts(qfw))

\* 122-124: the request is converted to uint32_t and clamped.
QueueSizePkts(req, qfw) ==
  Max(Min(ToUint32(req), ComputeRingBufferMaxPkts(qfw)),
      ComputeRingBufferMinPkts(qfw))

\* 126: a uint32_t product.
QueueSizeBytes(pkts) == ToUint32(pkts * PacketBytes)

\* 127: (queue_size_bytes & (queue_size_bytes - 1)) != 0, in uint32_t.
NotPowerOfTwoBytes(bytes) == BitAnd(bytes, ToUint32(bytes - 1)) # 0

\* The event this constructor creates, as opposed to <<1>>, the event another
\* queue of the process created.
CtorEvent == <<0>>

\* The allocation of the ring as the constructor's steps see it.
ringAlloc == <<ring_buf_alloc_bytes_, ring_view, ring_store>>

\* What every step of the constructor leaves alone.
ctorFrame == <<pm4Vars, prioVars, cuVars, gwsVars, queue_scratch_,
               queue_properties, dispatch_pkt, agent_props, agent_profile,
               ring_read, dbVars, lifeCfg, dynamicScratchState, inactive_signal,
               exception_signal, lifeHandlers, dpc, suspended_,
               kmd_destroy_calls, scratch_held, ring_freed, signals_destroyed,
               callbacks, lifeGhost, lifeInact, g_use_interrupt_wait,
               queue_lock_, event_assert_failed, cpc, req_size_pkts>>

\* A throw: the status is recorded and the guards start to run.
Throw(status) ==
  /\ ctor_status' = status
  /\ kpc' = "unwind"

\* 117-129.
K_Size ==
  /\ kpc = "sizing"
  /\ LET pkts == QueueSizePkts(req_size_pkts, queue_full_workaround_)
     IN  /\ queue_size_pkts' = pkts
         /\ IF NotPowerOfTwoBytes(QueueSizeBytes(pkts))
            THEN Throw("INVALID_QUEUE_CREATION")
            ELSE /\ kpc' = "ring"
                 /\ UNCHANGED ctor_status
  /\ UNCHANGED <<ctorFrame, ringAlloc, scratch_srd, exceptionState, scratch_regs, exc_armed, active_,
                 queue_count_, queue_event_, ring_buf_, ctor_signals,
                 kmd_queue, pm4_ib_buf_, guards>>

\* 546-548: the bytes of the shared-memory object and of the reserved range,
\* both computed in uint32_t.
RingPhysBytes(pkts) == ToUint32(pkts * PacketBytes)
ReservedBytes_Wide(pkts) == 2 * RingPhysBytes(pkts)
ReservedBytes(pkts) == ToUint32(2 * RingPhysBytes(pkts))

\* What AllocRegisteredRingBuffer and the loop of 138-140 can come to.
\* On the double-map path (544-601): no shared-memory object (561-563);
\* both halves mapped; a failed mmap, which stops a build with asserts and
\* makes the store of 139 fault when it is the range or the lower half that
\* failed ("abort"), and leaves the upper half without memory when it is the
\* upper half and asserts are compiled out ("lower_only"). A reserved range
\* of zero bytes cannot be mapped. Elsewhere (672-687) the system allocator
\* returns memory, double-mapped when asked to, or null.
RingOutcomes(profile, qfw, pkts) ==
  IF profile = "FULL" /\ qfw = 1
  THEN IF ReservedBytes(pkts) = 0 THEN {"null", "abort"}
       ELSE {"null", "mapped", "abort", "lower_only"}
  ELSE {"null", "mapped"}

\* 132-140: the ring is allocated and filled with invalid headers, or
\* ring_buf_ stays null and the constructor throws.
K_AllocRing ==
  /\ kpc = "ring"
  /\ LET double_map_path == agent_profile = "FULL" /\ queue_full_workaround_ = 1
     IN  \E outcome \in RingOutcomes(agent_profile, queue_full_workaround_,
                                     queue_size_pkts) :
           /\ ring_buf_alloc_bytes_' =
                (IF double_map_path THEN ReservedBytes(queue_size_pkts)
                 ELSE AllocatorBytes(queue_size_pkts, queue_full_workaround_))
           /\ IF outcome \in {"mapped", "lower_only"}
              THEN /\ ring_buf_' = TRUE
                   /\ ring_view' =
                        RingView(queue_size_pkts,
                                 queue_full_workaround_ = 1 /\ outcome = "mapped")
                   /\ ring_store' = InvalidRing(queue_size_pkts)
                   /\ guards' = Append(guards, "RingGuard")
                   /\ kpc' = "signals"
                   /\ UNCHANGED ctor_status
              ELSE IF outcome = "abort"
              THEN /\ kpc' = "aborted"
                   /\ UNCHANGED <<ring_buf_, ring_view, ring_store, guards,
                                  ctor_status>>
              ELSE /\ Throw("bad_alloc")
                   /\ UNCHANGED <<ring_buf_, ring_view, ring_store, guards>>
  /\ UNCHANGED <<ctorFrame, scratch_srd, exceptionState, scratch_regs, exc_armed,
                 active_, queue_count_, queue_event_, queue_size_pkts,
                 ctor_signals, kmd_queue, pm4_ib_buf_>>

\* The signals the two new-expressions of 242-245 or 249-252 leave behind:
\* either may throw std::bad_alloc.
SignalOutcomes == {{}, {"inactive"}, {"inactive", "exception"}}

\* 216-254: both guards are declared, then the event reference is taken (or
\* EventGuard is dismissed) and the two signals are made.
K_Signals ==
  /\ kpc = "signals"
  /\ IF g_use_interrupt_wait
     THEN /\ queue_count_' = queue_count_ + 1
          /\ guards' = guards \o <<"EventGuard", "SignalGuard">>
          /\ \E created \in BOOLEAN, made \in SignalOutcomes :
               IF queue_event_ = nullptr /\ ~created
               THEN /\ Throw("OUT_OF_RESOURCES")
                    /\ UNCHANGED <<queue_event_, ctor_signals>>
               ELSE /\ queue_event_' =
                         (IF queue_event_ = nullptr THEN CtorEvent
                          ELSE queue_event_)
                    /\ ctor_signals' = made
                    /\ IF made = {"inactive", "exception"}
                       THEN kpc' = "kmd" /\ UNCHANGED ctor_status
                       ELSE Throw("bad_alloc")
     ELSE /\ guards' = Append(guards, "SignalGuard")
          /\ \E made \in SignalOutcomes :
               /\ ctor_signals' = made
               /\ IF made = {"inactive", "exception"}
                  THEN kpc' = "kmd" /\ UNCHANGED ctor_status
                  ELSE Throw("bad_alloc")
          /\ UNCHANGED <<queue_count_, queue_event_>>
  /\ UNCHANGED <<ctorFrame, ringAlloc, scratch_srd, exceptionState, scratch_regs, exc_armed, active_,
                 queue_size_pkts, ring_buf_, kmd_queue, pm4_ib_buf_>>

\* 261-285: the KMD queue is created and the scratch SRD initialised.
K_CreateQueue ==
  /\ kpc = "kmd"
  /\ \E created \in BOOLEAN :
       IF created
       THEN /\ kmd_queue' = "created"
            /\ guards' = Append(guards, "QueueGuard")
            /\ scratch_srd' = InitScratchSRD(queue_scratch_, agent_props)
            /\ kpc' = "handlers"
            /\ UNCHANGED ctor_status
       ELSE /\ Throw("OUT_OF_RESOURCES")
            /\ UNCHANGED <<kmd_queue, guards, scratch_srd>>
  /\ UNCHANGED <<ctorFrame, ringAlloc, exceptionState, scratch_regs, exc_armed, active_,
                 queue_count_, queue_event_, queue_size_pkts, ring_buf_,
                 ctor_signals, pm4_ib_buf_>>

\* 287-305: each registration may fail; one that succeeded stays registered.
K_Handlers ==
  /\ kpc = "handlers"
  /\ \E scratch_ok \in BOOLEAN, exc_ok \in BOOLEAN :
       /\ scratch_regs' = (IF scratch_ok THEN <<Zero>> ELSE scratch_regs)
       /\ exc_armed' = (supports_exception_debugging /\ scratch_ok /\ exc_ok)
       /\ exceptionState' =
            (IF ~supports_exception_debugging /\ scratch_ok
             THEN {"DONE"} ELSE exceptionState)
       /\ IF scratch_ok /\ (supports_exception_debugging => exc_ok)
          THEN kpc' = "pm4" /\ UNCHANGED ctor_status
          ELSE Throw("OUT_OF_RESOURCES")
  /\ UNCHANGED <<ctorFrame, ringAlloc, scratch_srd, active_, queue_count_, queue_event_,
                 queue_size_pkts, ring_buf_, ctor_signals, kmd_queue,
                 pm4_ib_buf_, guards>>

\* 308-313.
K_AllocPM4 ==
  /\ kpc = "pm4"
  /\ \E allocated \in BOOLEAN :
       IF allocated
       THEN /\ pm4_ib_buf_' = TRUE
            /\ guards' = Append(guards, "PM4IBGuard")
            /\ kpc' = "finish"
            /\ UNCHANGED ctor_status
       ELSE /\ Throw("OUT_OF_RESOURCES")
            /\ UNCHANGED <<pm4_ib_buf_, guards>>
  /\ UNCHANGED <<ctorFrame, ringAlloc, scratch_srd, exceptionState, scratch_regs, exc_armed, active_,
                 queue_count_, queue_event_, queue_size_pkts, ring_buf_,
                 ctor_signals, kmd_queue>>

\* 316-324: the std::vector of SetCUMasking (1043) may throw std::bad_alloc;
\* otherwise the queue is made active and every guard dismissed.
K_Finish ==
  /\ kpc = "finish"
  /\ \E mask_allocated \in BOOLEAN :
       IF mask_allocated
       THEN /\ active_' = TRUE
            /\ guards' = <<>>
            /\ ctor_status' = "SUCCESS"
            /\ kpc' = "done"
       ELSE /\ Throw("bad_alloc")
            /\ UNCHANGED <<active_, guards>>
  /\ UNCHANGED <<ctorFrame, ringAlloc, scratch_srd, exceptionState, scratch_regs, exc_armed,
                 queue_count_, queue_event_, queue_size_pkts, ring_buf_,
                 ctor_signals, kmd_queue, pm4_ib_buf_>>

\* The innermost armed guard runs (134, 216-229, 281, 313); with none left
\* the exception leaves the constructor.
K_Unwind ==
  /\ kpc = "unwind"
  /\ IF guards = <<>>
     THEN /\ kpc' = "failed"
          /\ UNCHANGED <<guards, ring_buf_, ringAlloc, ctor_signals, kmd_queue,
                         pm4_ib_buf_, queue_count_, queue_event_>>
     ELSE LET g == guards[Len(guards)]
          IN  /\ guards' = SubSeq(guards, 1, Len(guards) - 1)
              /\ kpc' = "unwind"
              /\ pm4_ib_buf_' = (IF g = "PM4IBGuard" THEN FALSE ELSE pm4_ib_buf_)
              /\ kmd_queue' = (IF g = "QueueGuard" THEN "destroyed" ELSE kmd_queue)
              /\ ctor_signals' = (IF g = "SignalGuard" THEN {} ELSE ctor_signals)
              /\ ring_buf_' = (IF g = "RingGuard" THEN FALSE ELSE ring_buf_)
              \* 690-706: FreeRegisteredRingBuffer
              /\ ring_buf_alloc_bytes_' =
                   (IF g = "RingGuard" THEN 0 ELSE ring_buf_alloc_bytes_)
              /\ ring_view' = (IF g = "RingGuard" THEN <<>> ELSE ring_view)
              /\ ring_store' = (IF g = "RingGuard" THEN <<>> ELSE ring_store)
              /\ IF g = "EventGuard"
                 THEN ReleaseEventRef
                 ELSE UNCHANGED <<queue_count_, queue_event_>>
  /\ UNCHANGED <<ctorFrame, scratch_srd, exceptionState, scratch_regs, exc_armed, active_,
                 queue_size_pkts, ctor_status>>

\* The queue before its constructor's body: 81-112.
InitCtor ==
  /\ doorbell_type_ = 2
  /\ large_model = FALSE
  \* 109-112: 1 on GFX7 and GFX8
  /\ queue_full_workaround_ \in {0, 1}
  /\ waits_for_slot = FALSE
  /\ InitQueueRecord
  /\ pc = [t \in Threads |-> "off"]
  /\ val = [t \in Threads |-> 0]
  /\ legacy_dispatch_id = [t \in Threads |-> 0]
  /\ idx = [t \in Threads |-> 0]
  /\ script_pos = 0
  /\ supports_exception_debugging \in BOOLEAN
  /\ dynamicScratchState = {}
  /\ exceptionState = {}
  /\ inactive_signal = Zero
  /\ exception_signal = Zero
  /\ scratch_regs = <<>>
  /\ exc_armed = FALSE
  /\ scratch_handler = ScratchHandlerIdle
  /\ exc_handler = ExcHandlerIdle
  /\ dpc = "live"
  /\ active_ = FALSE
  /\ suspended_ = FALSE
  /\ kmd_destroy_calls = 0
  /\ scratch_held = FALSE
  /\ ring_freed = FALSE
  /\ signals_destroyed = FALSE
  /\ callbacks = <<>>
  /\ access_after_done = FALSE
  /\ access_after_free = FALSE
  /\ ipc = [t \in InactCallers |-> "idle"]
  /\ inact_ret = [t \in InactCallers |-> "none"]
  /\ g_use_interrupt_wait \in BOOLEAN
  /\ queue_lock_ = 0
  \* no other queue of the process, or one that holds the event
  /\ \E others \in {0, 1} :
       /\ queue_count_ = (IF g_use_interrupt_wait THEN others ELSE 0)
       /\ queue_event_ = (IF queue_count_ = 0 THEN nullptr ELSE <<1>>)
  /\ event_assert_failed = FALSE
  /\ cpc = [q \in QueueThreads |-> "none"]
  /\ MoreIdle
  \* 544: the double-map path is taken on agents of the FULL profile
  /\ agent_profile \in {"BASE", "FULL"}
  /\ ring_buf_alloc_bytes_ = 0
  /\ ring_view = <<>>
  /\ ring_store = <<>>
  /\ ring_read = NoRead
  /\ kpc = "sizing"
  /\ req_size_pkts \in Requests
  /\ queue_size_pkts = 0
  /\ ctor_status = "none"
  /\ ring_buf_ = FALSE
  /\ ctor_signals = {}
  /\ kmd_queue = "none"
  /\ pm4_ib_buf_ = FALSE
  /\ guards = <<>>

NextCtor ==
  \/ K_Size
  \/ K_AllocRing
  \/ K_Signals
  \/ K_CreateQueue
  \/ K_Handlers
  \/ K_AllocPM4
  \/ K_Finish
  \/ K_Unwind

SpecCtor == InitCtor /\ [][NextCtor]_vars


\* ------------------------------------------------------------ claims C11, C12
PowersOfTwo == {2 ^ k : k \in 0 .. Uint32Bits}
min_pkts == ComputeRingBufferMinPkts(queue_full_workaround_)
max_pkts == ComputeRingBufferMaxPkts(queue_full_workaround_)
Sized == kpc # "sizing"

\* C11 as stated: every requested packet count that is not a power of two
\* makes the constructor fail with INVALID_QUEUE_CREATION.
C11_Original ==
  (Sized /\ req_size_pkts \notin PowersOfTwo)
    => (kpc \in {"unwind", "failed"} /\ ctor_status = "INVALID_QUEUE_CREATION")

\* C11, amended: the sizing step fails with INVALID_QUEUE_CREATION exactly
\* when the request, converted to 32 bits, lies within [min_pkts, max_pkts]
\* and is not a power of two; a request whose 32-bit value lies below min_pkts
\* or above max_pkts is clamped and passes the test, whatever its value.
C11_Amended ==
  Sized
    => ((ctor_status = "INVALID_QUEUE_CREATION")
          <=> (/\ ToUint32(req_size_pkts) >= min_pkts
               /\ ToUint32(req_size_pkts) <= max_pkts
               /\ ToUint32(req_size_pkts) \notin PowersOfTwo))

\* A request above 32 bits whose low 32 bits are in range and not a power of
\* two has been refused.
C11_Witness ==
  /\ kpc = "failed"
  /\ ctor_status = "INVALID_QUEUE_CREATION"
  /\ req_size_pkts > Uint32Modulus
  /\ ToUint32(req_size_pkts) > min_pkts
  /\ ToUint32(req_size_pkts) < max_pkts

\* C12: whenever construction succeeds, the ring capacity is a power of two
\* between min_pkts and max_pkts, the maximum included, where the 32-bit byte
\* size wraps to zero.
C12_SizeInRange ==
  (kpc = "done")
    => /\ queue_size_pkts \in PowersOfTwo
       /\ min_pkts <= queue_size_pkts
       /\ queue_size_pkts <= max_pkts
       /\ min_pkts = 2 ^ (IF queue_full_workaround_ = 1
                          THEN PageLog2 ELSE MinBytesLog2) \div PacketBytes
       /\ max_pkts = (IF queue_full_workaround_ = 1
                      THEN Uint32Modulus \div 2 ELSE Uint32Modulus)
                       \div PacketBytes

\* A queue constructed at the maximum capacity, whose byte size is 2^32.
C12_Witness ==
  /\ kpc = "done"
  /\ queue_full_workaround_ = 0
  /\ queue_size_pkts = max_pkts
  /\ QueueSizeBytes(queue_size_pkts) = 0


\* =========================================================================
\* ExecutePM4 (1107-1225) beside other users of the write index (384-409).
\* =========================================================================

\* atomic::Cas on write_dispatch_id (394-409): returns the old value and
\* stores value when the old value is the expected one.
CasWriteIndex(old, expected, value) ==
  /\ old = write_dispatch_id
  /\ write_dispatch_id' =
       (IF write_dispatch_id = expected THEN value ELSE write_dispatch_id)

\* The threads that call ExecutePM4, and the user threads beside them.
Pm4Callers == 1 .. NumCallers
Users == Threads \ Pm4Callers
\* The write index up to which the threads of the model reserve.
IndexCap == Size + 2

\* What no step of ExecutePM4 or of a user touches.
notPm4 == <<lifeVars, evVars, ctorVars, prioVars, cuVars, gwsVars, srdVars,
            ringVars>>

\* KernelMutex::Acquire (1109) goes through whatever the mutex holds.
KernelMutexFree_Always(mutex) == TRUE

\* KernelMutex::Acquire (1109) goes through when no thread holds the mutex.
KernelMutexFree(mutex) == mutex = 0

\* 1109: ScopedAcquire<KernelMutex> lock(&pm4_ib_mutex_).
X_Lock(t) ==
  /\ pc[t] = "x_entry"
  /\ KernelMutexFree(pm4_ib_mutex_)
  /\ pm4_ib_mutex_' = t
  /\ pc' = [pc EXCEPT ![t] = "x_add"]
  /\ UNCHANGED <<notPm4, write_lowered, pm4_ib_cmd, dbCfg, dbQueue, dbHw, val, legacy_dispatch_id, idx,
                 script_pos>>

\* 1115: write_idx = AddWriteIndexAcqRel(1).
X_Add(t) ==
  /\ pc[t] = "x_add"
  /\ \E i \in 0 .. IndexModulus - 1 :
       /\ AddWriteIndex(i, 1)
       /\ idx' = [idx EXCEPT ![t] = i]
  /\ pc' = [pc EXCEPT ![t] = "x_wait"]
  /\ UNCHANGED <<notPm4, pm4Vars, dbCfg, read_dispatch_id,
                 max_legacy_doorbell_dispatch_id_plus_1, legacy_doorbell_lock,
                 dbHw, val, legacy_dispatch_id, script_pos>>

\* The loop condition of 1117 for a call that holds write_idx, without the
\* comparison against the ring size.
SlotBusy_Never(t) ==
  FALSE

\* 1117: (write_idx - LoadReadIndexRelaxed()) >= hsa_queue.size, in uint64_t.
SlotBusy(t) ==
  ToIndex(idx[t] - read_dispatch_id) >= Size

\* 1117-1119: the loop is left once the condition is false.
X_Wait(t) ==
  /\ pc[t] = "x_wait"
  /\ ~SlotBusy(t)
  /\ pc' = [pc EXCEPT ![t] = "x_write"]
  /\ UNCHANGED <<notPm4, pm4Vars, dbCfg, dbQueue, dbHw, val, legacy_dispatch_id,
                 idx, script_pos>>

\* 1121-1217: the command is copied into the IB (1128), the slot is written
\* with the jump to the IB, its header last, and the doorbell is rung with
\* write_idx.
X_Write(t) ==
  /\ pc[t] = "x_write"
  /\ pm4_ib_cmd' = t
  /\ ring' = [ring EXCEPT ![idx[t] % Size] = <<idx[t]>>]
  /\ val' = [val EXCEPT ![t] = idx[t]]
  /\ pc' = [pc EXCEPT ![t] = "call"]
  /\ UNCHANGED <<notPm4, pm4_ib_mutex_, write_lowered, dbCfg, dbQueue, hardware_doorbell, mmio,
                 consumed, legacy_dispatch_id, idx, script_pos>>

\* The loop condition of 1222 without the comparison.
NotConsumed_Never(t) ==
  FALSE

\* 1222: LoadReadIndexRelaxed() <= write_idx.
NotConsumed(t) ==
  read_dispatch_id <= idx[t]

\* 1222-1225: the loop is left, the call returns and the mutex is released.
X_Return(t) ==
  /\ pc[t] = "idle"
  /\ ~NotConsumed(t)
  /\ pm4_ib_mutex_' = 0
  /\ pc' = [pc EXCEPT ![t] = "x_done"]
  /\ UNCHANGED <<notPm4, write_lowered, pm4_ib_cmd, dbCfg, dbQueue, dbHw, val, legacy_dispatch_id, idx,
                 script_pos>>

\* The call with the doorbell store of 1217 taken through StoreRelaxed.
ExecutePM4(t) ==
  \/ X_Lock(t)
  \/ X_Add(t)
  \/ X_Wait(t)
  \/ X_Write(t)
  \/ StoreRelaxed(t)
  \/ X_Return(t)

\* The call on an agent with the native doorbell (doorbell_type_ == 2).
ExecutePM4Native(t) ==
  \/ X_Lock(t)
  \/ X_Add(t)
  \/ X_Wait(t)
  \/ X_Write(t)
  \/ DbNative(t)
  \/ X_Return(t)

\* A user that follows the submission protocol starts its next packet, until
\* the users have reserved a ring's worth.
U_Again(t) ==
  /\ pc[t] = "idle"
  /\ write_dispatch_id < Size
  /\ pc' = [pc EXCEPT ![t] = "start"]
  /\ UNCHANGED <<notDb, dbCfg, dbQueue, dbHw, val, legacy_dispatch_id, idx,
                 script_pos>>

\* One submission of a user: reserve, wait for the slot, write, ring.
UserSubmit(t) ==
  \/ ProdAdd(t)
  \/ ProdWait(t)
  \/ ProdWrite(t)
  \/ DbNative(t)
  \/ U_Again(t)

InitPm4Threads(user_pc) ==
  /\ InitQueueRecord
  /\ pc = [t \in Threads |-> IF t \in Pm4Callers THEN "x_entry" ELSE user_pc]
  /\ val = [t \in Threads |-> 0]
  /\ legacy_dispatch_id = [t \in Threads |-> 0]
  /\ idx = [t \in Threads |-> 0]
  /\ script_pos = 0

\* ExecutePM4 callers beside users that follow the protocol, on an agent with
\* the native doorbell.
InitPm4 ==
  /\ doorbell_type_ = 2
  /\ large_model = FALSE
  /\ queue_full_workaround_ = 1
  /\ supports_exception_debugging = FALSE
  /\ LifeConstructed
  /\ RestIdle
  /\ EventOneQueue
  /\ waits_for_slot = TRUE
  /\ InitPm4Threads("start")

NextPm4 ==
  \/ \E t \in Pm4Callers : ExecutePM4Native(t)
  \/ \E t \in Users : UserSubmit(t)
  \/ GpuConsume

SpecPm4 == InitPm4 /\ [][NextPm4]_vars

\* Every thread keeps running, and the packet processor consumes every packet
\* that has been published.
FairPm4 ==
  /\ SpecPm4
  /\ \A t \in Pm4Callers : WF_vars(ExecutePM4Native(t))
  /\ \A t \in Users : WF_vars(UserSubmit(t))
  /\ WF_vars(GpuConsume)

\* ---------------------------------- users that call the index operations raw
\* Two threads call ExecutePM4 (the second finds what the first left), and one
\* user thread beside them calls the index operations.
IndexCallers == {1, 2}
RawUsers == {3}

\* 384-429: a user adds to, swaps or stores the write index with any values.
U_AddWriteIndex(t) ==
  /\ pc[t] = "raw"
  /\ \E value \in 1 .. Size :
       /\ write_dispatch_id + value <= IndexCap
       /\ AddWriteIndex(write_dispatch_id, value)
  /\ UNCHANGED <<notDb, dbCfg, read_dispatch_id, max_legacy_doorbell_dispatch_id_plus_1,
                 legacy_doorbell_lock, dbHw, dbThreads>>

U_CasWriteIndex(t) ==
  /\ pc[t] = "raw"
  /\ \E expected \in {write_dispatch_id, ToIndex(write_dispatch_id + 1)},
        value \in 0 .. IndexCap :
       CasWriteIndex(write_dispatch_id, expected, value)
  /\ write_lowered' = (write_lowered \/ write_dispatch_id' < write_dispatch_id)
  /\ UNCHANGED <<notPm4, pm4_ib_mutex_, pm4_ib_cmd, dbCfg, read_dispatch_id, max_legacy_doorbell_dispatch_id_plus_1,
                 legacy_doorbell_lock, dbHw, dbThreads>>

U_StoreWriteIndex(t) ==
  /\ pc[t] = "raw"
  /\ \E v \in 0 .. IndexCap : StoreWriteIndex(v)
  /\ write_lowered' = (write_lowered \/ write_dispatch_id' < write_dispatch_id)
  /\ UNCHANGED <<notPm4, pm4_ib_mutex_, pm4_ib_cmd, dbCfg, read_dispatch_id, max_legacy_doorbell_dispatch_id_plus_1,
                 legacy_doorbell_lock, dbHw, dbThreads>>

InitIndex ==
  /\ InitConfig
  /\ supports_exception_debugging = FALSE
  /\ LifeConstructed
  /\ RestIdle
  /\ EventOneQueue
  /\ waits_for_slot = TRUE
  /\ InitQueueRecord
  /\ pc = [t \in Threads |->
             IF t \in IndexCallers THEN "x_entry"
             ELSE IF t \in RawUsers THEN "raw" ELSE "off"]
  /\ val = [t \in Threads |-> 0]
  /\ legacy_dispatch_id = [t \in Threads |-> 0]
  /\ idx = [t \in Threads |-> 0]
  /\ script_pos = 0

NextIndex ==
  \/ \E t \in IndexCallers : ExecutePM4(t)
  \/ \E t \in RawUsers : U_AddWriteIndex(t)
  \/ \E t \in RawUsers : U_CasWriteIndex(t)
  \/ \E t \in RawUsers : U_StoreWriteIndex(t)
  \/ GpuConsume

SpecIndex == InitIndex /\ [][NextIndex]_vars

\* ------------------------------------------------------------------ claim C13
\* C13 as stated: in every reachable state read_dispatch_id <=
\* write_dispatch_id and write_dispatch_id - read_dispatch_id <= ring size.
C13_Original ==
  /\ read_dispatch_id <= write_dispatch_id
  /\ write_dispatch_id - read_dispatch_id <= Size

\* C13, amended: read_dispatch_id <= write_dispatch_id holds as long as no
\* StoreWriteIndex or CasWriteIndex has set the write index to a smaller
\* value, and the distance between the two is not bounded by the ring size;
\* ExecutePM4 writes the slot of the index it reserved only when
\* read_dispatch_id <= index < read_dispatch_id + size.
C13_Amended ==
  /\ [](~write_lowered => read_dispatch_id <= write_dispatch_id)
  /\ [][\A t \in IndexCallers :
          (pc[t] = "x_write" /\ pc'[t] = "call")
            => /\ read_dispatch_id <= idx[t]
               /\ idx[t] < read_dispatch_id + Size]_vars

\* An ExecutePM4 call holds a reservation more than a ring away from the read
\* index, after an earlier packet was consumed.
C13_Witness ==
  /\ ~write_lowered
  /\ read_dispatch_id > 0
  /\ write_dispatch_id - read_dispatch_id > Size
  /\ \E t \in IndexCallers : pc[t] = "x_wait" /\ SlotBusy(t)


\* ------------------------------------------------------------------ claim C20
\* C20: an ExecutePM4 call that finds the ring full leaves its slot alone
\* while write_idx - read_dispatch_id >= size, returns only when
\* read_dispatch_id > write_idx, and does return when every other producer
\* publishes what it reserved and the consumer consumes what is published.
C20_WaitsThenReturns ==
  /\ [](\A t \in Pm4Callers :
          pc[t] = "x_wait" => ring[idx[t] % Size] # <<idx[t]>>)
  /\ [][\A t \in Pm4Callers :
          /\ (pc[t] = "x_wait" /\ SlotBusy(t))
               => (pc'[t] = "x_wait" /\ ring'[idx[t] % Size] # <<idx[t]>>)
          /\ (pc[t] # "x_done" /\ pc'[t] = "x_done")
               => read_dispatch_id > idx[t]]_vars
  /\ \A t \in Pm4Callers :
       (pc[t] = "x_wait" /\ SlotBusy(t)) ~> (pc[t] = "x_done")

\* A call has reserved an index a full ring beyond the read index: the ring
\* was full when it was made.
C20_Witness ==
  \E t \in Pm4Callers :
    /\ pc[t] = "x_wait"
    /\ SlotBusy(t)
    /\ write_dispatch_id - read_dispatch_id > Size


\* ------------------------------------------------------------------ claim C14
IsSuspendCall(u) == u.percent = 0
\* The number of hsaKmtUpdateQueue calls at percentage 0 made so far.
SuspendCalls == Len(SelectSeq(kmd_updates, IsSuspendCall))

\* C14: the user's error callback is invoked only on a suspended queue, and
\* every invocation, from either handler, follows a Suspend of its own
\* handler run: suspended_ set and hsaKmtUpdateQueue called at percentage 0.
C14_SuspendBeforeCallback ==
  /\ [](/\ callbacks # <<>> => suspended_
        /\ (scratch_handler.pc = "callback" \/ exc_handler.pc = "callback")
             => (suspended_ /\ SuspendCalls > Len(callbacks)))
  /\ [][callbacks' # callbacks
          => (suspended_ /\ SuspendCalls >= Len(callbacks'))]_vars

\* Both handlers have called the callback.
C14_Witness ==
  /\ Len(callbacks) = 2
  /\ suspended_
  /\ SuspendCalls = 2


\* =========================================================================
\* SetPriority (765-773) beside Suspend, called directly or by a handler.
\* =========================================================================

\* What no step of SetPriority touches.
notPrio == <<dbVars, lifeVars, evVars, ctorVars, pm4Vars, cuVars, gwsVars,
             srdVars, ringVars>>

\* A caller calls SetPriority(priority).
P_Call(t) ==
  /\ set_priority[t].pc = "idle"
  /\ \E priority \in Priorities :
       set_priority' = [set_priority EXCEPT
                          ![t] = [pc |-> "check", priority |-> priority,
                                  ret |-> "none", late |-> suspended_]]
  /\ UNCHANGED <<notPrio, priority_, kmd_updates>>

\* The test of 766 with its outcome fixed.
IsSuspended_Never ==
  FALSE

\* 766: if (suspended_).
IsSuspended ==
  suspended_

\* 766-768.
P_Check(t) ==
  /\ set_priority[t].pc = "check"
  /\ set_priority' =
       [set_priority EXCEPT
          ![t] = IF IsSuspended
                 THEN [@ EXCEPT !.pc = "returned", !.ret = "INVALID_QUEUE"]
                 ELSE [@ EXCEPT !.pc = "update"]]
  /\ UNCHANGED <<notPrio, priority_, kmd_updates>>

\* 770-772: the priority is recorded and passed to the KMD at percentage 100.
P_Update(t) ==
  /\ set_priority[t].pc = "update"
  /\ priority_' = set_priority[t].priority
  /\ KmdUpdate(100, set_priority[t].priority)
  /\ \E err \in {"SUCCESS", "OUT_OF_RESOURCES"} :
       set_priority' = [set_priority EXCEPT
                          ![t] = [@ EXCEPT !.pc = "returned", !.ret = err]]
  /\ UNCHANGED notPrio

SetPriority(t) == P_Call(t) \/ P_Check(t) \/ P_Update(t)

\* Suspend called on the queue directly.
CallSuspend ==
  /\ ~suspended_
  /\ Suspend
  /\ UNCHANGED <<notLifeSuspend, lifeCfg, lifeSignals, lifeHandlers, dpc,
                 active_, kmd_destroy_calls, scratch_held, ring_freed,
                 signals_destroyed, callbacks, lifeGhost, lifeInact>>

\* A queue of a KFD that reports exceptions through ExceptionHandler.
InitPrio ==
  /\ DbIdle
  /\ supports_exception_debugging = TRUE
  /\ LifeConstructed
  /\ RestIdle
  /\ EventOneQueue

NextPrio ==
  \/ KfdException
  \/ DispatchException
  \/ ExceptionHandler
  \/ CallSuspend
  \/ \E t \in InactCallers : SetPriority(t)

SpecPrio == InitPrio /\ [][NextPrio]_vars

\* ------------------------------------------------------------------ claim C19
\* C19: a SetPriority call made after Suspend has run returns INVALID_QUEUE
\* without a hsaKmtUpdateQueue call and without changing priority_; a call on
\* a queue that is not suspended calls hsaKmtUpdateQueue at percentage 100
\* with the new priority, which it records.
C19_SetPriorityAfterSuspend ==
  /\ [](\A t \in InactCallers :
          (set_priority[t].late /\ set_priority[t].pc = "returned")
            => set_priority[t].ret = "INVALID_QUEUE")
  /\ [][\A t \in InactCallers :
          /\ (set_priority[t].late /\ set_priority'[t] # set_priority[t])
               => UNCHANGED <<priority_, kmd_updates>>
          /\ (set_priority[t].pc = "check" /\ ~suspended_)
               => set_priority'[t].pc \in {"check", "update"}
          /\ (set_priority[t].pc = "update" /\ set_priority'[t].pc = "returned")
               => /\ priority_' = set_priority[t].priority
                  /\ kmd_updates' =
                       Append(kmd_updates,
                              [percent |-> 100,
                               priority |-> set_priority[t].priority])]_vars

\* One call was made after a handler suspended the queue and was refused,
\* another was made before and changed the priority.
C19_Witness ==
  \E t, u \in InactCallers :
    /\ set_priority[t].late
    /\ set_priority[t].ret = "INVALID_QUEUE"
    /\ callbacks # <<>>
    /\ set_priority[u].ret = "SUCCESS"
    /\ ~set_priority[u].late
    /\ priority_ = "HIGH"


\* ------------------------------------------------------------------ claim C15
\* What the guards undo once the exception has left the constructor: the ring
\* buffer, the event reference, both signals, the KMD queue and the PM4 IB.
ResourcesUndone ==
  /\ ~ring_buf_
  /\ \/ queue_count_ = 0 /\ queue_event_ = nullptr
     \/ queue_count_ = 1 /\ queue_event_ = <<1>>
  /\ ctor_signals = {}
  /\ kmd_queue # "created"
  /\ ~pm4_ib_buf_

\* No async handler is registered for the queue.
HandlersDisarmed ==
  /\ scratch_regs = <<>>
  /\ ~exc_armed

\* C15: when construction has failed, every acquisition of the earlier steps
\* has been undone and no async handler registered for the queue is armed.
C15_AllUndone ==
  (kpc = "failed") => (ResourcesUndone /\ HandlersDisarmed)

\* The part of C15 that the scope guards do establish.
C15_GuardsUndo ==
  (kpc = "failed") => ResourcesUndone


\* =========================================================================
\* SetCUMasking (1035-1092) and GetCUMasking (1094-1105).
\* =========================================================================

\* 1038: mask_dwords = (cu_count + 31) / 32.
mask_dwords == (cu_count + DwordBits - 1) \div DwordBits

\* 1040 without the trim: every bit.
tail_mask_None ==
  DwordZero

\* 1040: tail_mask = (1 << (cu_count % 32)) - 1.
tail_mask ==
  0 .. (cu_count % DwordBits) - 1

\* std::vector::resize(n, 0).
Resize(mask, n) ==
  [i \in 1 .. n |-> IF i <= Len(mask) THEN mask[i] ELSE DwordZero]

\* 1048-1052: the all-ones mask for a count of 0, else the first
\* num_cu_mask_count / 32 words of the caller's array.
RequestedMask(num_cu_mask_count, cu_mask) ==
  IF num_cu_mask_count = 0
  THEN [i \in 1 .. mask_dwords |-> DwordOnes]
  ELSE SubSeq(cu_mask, 1, num_cu_mask_count \div DwordBits)

\* 1057, 1074: the number of words kept.
Limit(mask) ==
  IF global_mask # <<>>
  THEN Min(Min(Len(global_mask), Len(mask)), mask_dwords)
  ELSE Min(Len(mask), mask_dwords)

\* 1060-1070 without the loop of 1060-1065.
Clipped_WithinLimit(mask) ==
  /\ global_mask # <<>>
  /\ \E i \in 1 .. Limit(mask) : mask[i] \ global_mask[i] # DwordZero

\* 1045, 1060-1070: whether a requested bit was found to be removed.
Clipped(mask) ==
  /\ global_mask # <<>>
  /\ \/ \E i \in Limit(mask) + 1 .. Len(mask) : mask[i] # DwordZero
     \/ \E i \in 1 .. Limit(mask) : mask[i] \ global_mask[i] # DwordZero

\* 1067-1079: the mask cut to the limit, ANDed with the global mask, its last
\* physical word trimmed.
ReducedMask(mask) ==
  LET cut == Resize(mask, Limit(mask))
      anded == [i \in 1 .. Len(cut) |->
                  IF global_mask # <<>> THEN cut[i] \cap global_mask[i]
                  ELSE cut[i]]
  IN  IF Len(anded) = mask_dwords /\ tail_mask # DwordZero
      THEN [anded EXCEPT ![mask_dwords] = @ \cap tail_mask]
      ELSE anded

\* The masks a caller or the process configuration may hold: up to one word
\* more than the largest agent needs.
MaxMaskDwords == (MaxCuCount + DwordBits - 1) \div DwordBits
MasksOfLen(n) == [1 .. n -> SUBSET DwordOnes]
GlobalDwords == {DwordOnes, DwordOnes \ {0}}
GlobalMasks == UNION {[1 .. n -> GlobalDwords] : n \in 0 .. MaxMaskDwords}
MaskCounts == 0 .. MaxMaskDwords * DwordBits

\* What the CU mask calls leave alone.
notCu == <<dbVars, lifeVars, evVars, ctorVars, pm4Vars, prioVars, gwsVars,
           srdVars, ringVars, cu_count, global_mask>>

\* 1035-1092, with the outcome of hsaKmtSetQueueCUMask.
SetCUMasking ==
  /\ cu_set.ret = "none"
  /\ \E num_cu_mask_count \in MaskCounts :
     \E cu_mask \in MasksOfLen(num_cu_mask_count \div DwordBits) :
     \E kmd_ok \in BOOLEAN :
       LET requested == RequestedMask(num_cu_mask_count, cu_mask)
           mask == ReducedMask(requested)
           calls_kmd == cu_mask_ # <<>> \/ num_cu_mask_count # 0
                          \/ global_mask # <<>>
           ret == IF calls_kmd /\ ~kmd_ok THEN "ERROR"
                  ELSE IF Clipped(requested) THEN "CU_MASK_REDUCED"
                  ELSE "SUCCESS"
       IN  /\ kmd_cu_mask' = (IF calls_kmd /\ kmd_ok THEN <<mask>>
                              ELSE kmd_cu_mask)
           /\ cu_mask_' = (IF ret = "ERROR" THEN cu_mask_ ELSE mask)
           /\ cu_set' = [num_cu_mask_count |-> num_cu_mask_count,
                         cu_mask |-> cu_mask, ret |-> ret]
  /\ cu_get' = CuGetIdle
  /\ UNCHANGED notCu

\* 1098-1103 without the memset of 1100: the caller's words beyond the cached
\* mask keep what they held.
CopyOut_NoPad(user_dword_count, before) ==
  [i \in 1 .. user_dword_count |->
     IF i <= Len(cu_mask_) THEN cu_mask_[i] ELSE before[i]]

\* 1098-1103: the cached words, then zeros.
CopyOut(user_dword_count, before) ==
  [i \in 1 .. user_dword_count |->
     IF i <= Len(cu_mask_) THEN cu_mask_[i] ELSE DwordZero]

\* 1094-1105; the caller's buffer holds anything before the call.
GetCUMasking ==
  /\ cu_set.ret # "none"
  /\ cu_get.ret = "none"
  /\ \E num_cu_mask_count \in MaskCounts :
     \E before \in {[i \in 1 .. num_cu_mask_count \div DwordBits |-> w] :
                      w \in {DwordZero, DwordOnes}} :
       cu_get' = [num_cu_mask_count |-> num_cu_mask_count,
                  out |-> CopyOut(num_cu_mask_count \div DwordBits, before),
                  ret |-> "SUCCESS"]
  /\ UNCHANGED <<notCu, cu_mask_, kmd_cu_mask, cu_set>>

\* The masks the cache may hold before the call under study: none
\* (cu_mask_skip_init), the initial mask of 316, or what an earlier call
\* with an all-zero or all-ones mask left.
PriorMasks ==
  {<<>>} \cup
  {ReducedMask(RequestedMask(n, [i \in 1 .. n \div DwordBits |-> w])) :
     n \in {0, MaxMaskDwords * DwordBits}, w \in {DwordZero, DwordOnes}}

\* A constructed queue and the inputs of one SetCUMasking call followed by
\* one GetCUMasking call.
InitCu ==
  /\ DbIdle
  /\ supports_exception_debugging = FALSE
  /\ LifeConstructed
  /\ EventOneQueue
  /\ CtorDone
  /\ pm4_ib_mutex_ = 0
  /\ write_lowered = FALSE
  /\ pm4_ib_cmd = 0
  /\ priority_ = "NORMAL"
  /\ kmd_updates = <<>>
  /\ set_priority = [t \in InactCallers |-> SetPriorityIdle]
  /\ cu_count \in 1 .. MaxCuCount
  /\ global_mask \in GlobalMasks
  /\ cu_mask_ \in PriorMasks
  /\ kmd_cu_mask = <<>>
  /\ cu_set = CuSetIdle
  /\ cu_get = CuGetIdle
  /\ ExtIdle

NextCu ==
  \/ SetCUMasking
  \/ GetCUMasking

SpecCu == InitCu /\ [][NextCu]_vars


\* ---------------------------------------------------- claims C16, C17, C18
\* The bits of word i that name a physical CU, and those the process-global
\* mask allows (every bit when no global mask is configured).
PhysicalBits(i) ==
  {b \in DwordOnes : (i - 1) * DwordBits + b < cu_count}
GlobalBits(i) ==
  IF global_mask = <<>> THEN DwordOnes
  ELSE IF i <= Len(global_mask) THEN global_mask[i] ELSE DwordZero
SetDone == cu_set.ret \in {"SUCCESS", "CU_MASK_REDUCED"}
\* Word i of the cached mask, zero beyond its length.
CachedWord(i) == IF i <= Len(cu_mask_) THEN cu_mask_[i] ELSE DwordZero

C17_Original ==
  (SetDone /\ cu_set.num_cu_mask_count = 0)
    => cu_mask_ = [i \in 1 .. mask_dwords |-> DwordOnes]

\* The number of words a reset leaves.
ResetLen ==
  IF global_mask = <<>> THEN mask_dwords
  ELSE Min(Len(global_mask), mask_dwords)

\* C17, amended: after a SetCUMasking with a count of 0 that took effect the
\* cached mask is, whatever was cached before, the global mask AND the
\* physical CU mask over min(global words, ceil(cu_count/32)) words (all-ones
\* only without a global mask and with cu_count a multiple of 32); a call
\* that returns ERROR leaves the cached mask as it was.
C17_Amended ==
  /\ []((SetDone /\ cu_set.num_cu_mask_count = 0)
          => cu_mask_ = [i \in 1 .. ResetLen |->
                           GlobalBits(i) \cap PhysicalBits(i)])
  /\ [][cu_set'.ret = "ERROR" => cu_mask_' = cu_mask_]_vars

\* A reset has left a mask that is not all-ones.
C17_Witness ==
  /\ SetDone
  /\ cu_set.num_cu_mask_count = 0
  /\ global_mask = <<>>
  /\ cu_mask_ # [i \in 1 .. mask_dwords |-> DwordOnes]

\* A bit of the caller's mask is not in the cached mask.
BitLost ==
  \E i \in 1 .. Len(cu_set.cu_mask) : cu_set.cu_mask[i] \ CachedWord(i) # DwordZero

GlobalKept(i) ==
  IF i <= Min(Len(global_mask), mask_dwords) THEN global_mask[i] ELSE DwordZero

ScratchAgents ==
  {[max_cu_id |-> 1, MaxSlotsScratchCU |-> n, NumShaderBanks |-> n,
    large_from |-> Uint32Modulus \div 8] : n \in {1, 2}}

\* Dispatch packets at the read index: a single work-item with a byte of
\* scratch, a grid that is not a multiple of its work-group, and a kernel
\* whose scratch takes a quarter of the 32-bit range per work-item.
ScratchDispatches ==
  { [private_segment_size |-> 1,
     workgroup_size |-> <<1, 1, 1>>, grid_size |-> <<1, 1, 1>>],
    [private_segment_size |-> 3,
     workgroup_size |-> <<3, 1, 1>>, grid_size |-> <<7, 1, 1>>],
    [private_segment_size |-> Uint32Modulus \div 4,
     workgroup_size |-> <<3, 2, 1>>, grid_size |-> <<7, 2, 1>>] }

\* The codes the command processor posts: insufficient scratch for wave64
\* (bit 0) and wave32 (bit 10), alone and with an error bit; the reclaim code
\* 512, alone and with an error bit; every decoded bit, pairs of them that
\* fall into different rows, and a bit that is in no row.
ScratchFaultCodes ==
  {{0}, {10}, {0, 1}, {9}, {9, 1},
   {1}, {2}, {3}, {5}, {8}, {6}, {7}, {29}, {30}, {31}, {4},
   {1, 2}, {2, 3}, {3, 8}, {5, 6}, {8, 6}, {6, 7}, {7, 29}, {29, 30},
   {30, 31}, {4, 31}}

\* The command processor stalls the queue on a fault and posts its code.
ScratchFault ==
  /\ dpc = "live"
  /\ ~suspended_
  /\ inactive_signal = Zero
  /\ \E code \in ScratchFaultCodes : inactive_signal' = code
  /\ UNCHANGED <<notLife, lifeCfg, dynamicScratchState, exceptionState,
                 exception_signal, scratch_regs, exc_armed, lifeHandlers, dpc,
                 lifeQueue, lifeGhost, lifeInact>>

\* A constructed queue without scratch, its agent and the dispatch at the
\* read index.
InitScratch ==
  /\ DbIdle
  /\ supports_exception_debugging \in BOOLEAN
  /\ LifeConstructed
  /\ CtorDone
  /\ CallsIdle
  /\ GwsIdle
  /\ agent_props \in ScratchAgents
  /\ dispatch_pkt \in ScratchDispatches
  /\ ScratchNone
  /\ EventOneQueue

\* The faults, the agent's retry, the handler, and of the destructor the part
\* that waits for the handler (330-335).
NextScratch ==
  \/ ScratchFault
  \/ AgentRetry
  \/ DispatchScratch
  \/ DynamicScratchHandler
  \/ Destroy
  \/ D_Check1
  \/ D_Pulse1
  \/ D_Wait1

SpecScratch == InitScratch /\ [][NextScratch]_vars

\* ------------------------------------------------ insufficient scratch
\* ceil(a / b), and a rounded up to a multiple of b.
CeilOf(a, b) == -((-a) \div b)
MultipleOf(a, b) == CeilOf(a, b) * b

\* The sizing of the request for dispatch pkt on an agent with properties
\* props after a fault with the bits of code, as the fields of scratch.
SizedFor(scratch, pkt, props, code) ==
  LET lanes == IF 10 \in code THEN Wave32 ELSE Wave64
      size_per_thread == MultipleOf(pkt.private_segment_size, Kb \div lanes)
      slots == (props.max_cu_id + 1) * props.MaxSlotsScratchCU
      waves_per_group ==
        CeilOf(pkt.workgroup_size[1] * pkt.workgroup_size[2]
                 * pkt.workgroup_size[3], lanes)
      groups ==
        MultipleOf(CeilOf(pkt.grid_size[1], pkt.workgroup_size[1])
                     * CeilOf(pkt.grid_size[2], pkt.workgroup_size[2])
                     * CeilOf(pkt.grid_size[3], pkt.workgroup_size[3]),
                   props.NumShaderBanks)
  IN  /\ scratch.lanes_per_wave = lanes
      /\ scratch.size_per_thread = size_per_thread
      /\ scratch.size = size_per_thread * slots * lanes
      /\ scratch.wanted_slots = Min(groups * waves_per_group, slots)
      /\ scratch.dispatch_size =
           size_per_thread * scratch.wanted_slots * lanes

\* The step that ends a successful handling of insufficient scratch (885-887).
Restarted ==
  /\ scratch_handler.pc = "restart"
  /\ scratch_handler'.pc = "tail"

\* C21 as stated: after insufficient scratch was handled successfully the
\* ScratchInfo holds the sizing of the dispatch at the read index, SRD word 2
\* equals scratch.size and the inactive signal is 0.
C21_Original ==
  [][Restarted =>
       /\ SizedFor(queue_scratch_', dispatch_pkt, agent_props,
                   scratch_handler.error_code)
       /\ scratch_srd'.NUM_RECORDS = queue_scratch_'.size
       /\ inactive_signal' = Zero]_vars

\* C21: after insufficient scratch was handled successfully the ScratchInfo
\* holds the sizing of the dispatch at the read index, SRD word 2 holds the
\* low 32 bits of scratch.size, the backing-memory size holds all of it, and
\* the inactive signal is 0.
C21_Amended ==
  [][Restarted =>
       /\ SizedFor(queue_scratch_', dispatch_pkt, agent_props,
                   scratch_handler.error_code)
       /\ scratch_srd'.NUM_RECORDS = queue_scratch_'.size % Uint32Modulus
       /\ scratch_srd'.scratch_backing_memory_byte_size = queue_scratch_'.size
       /\ inactive_signal' = Zero]_vars

\* A wave32 request of 2^32 bytes or more was granted and the queue restarted.
C21_Witness ==
  /\ scratch_handler.pc = "tail"
  /\ scratch_handler.errorCode = "SUCCESS"
  /\ 10 \in scratch_handler.error_code
  /\ queue_scratch_.queue_base = "base"
  /\ queue_scratch_.lanes_per_wave = Wave32
  /\ queue_scratch_.size >= Uint32Modulus
  /\ queue_scratch_.waves_per_group > 1
  /\ scratch_srd.BASE_ADDRESS = "base"
  /\ inactive_signal = Zero

\* ------------------------------------------------ large scratch reclaim
\* The steps of an invocation that found error_code == 512 with TERMINATE
\* clear (793-808), and the last of them.
Reclaiming ==
  /\ \/ scratch_handler.pc = "process" /\ scratch_handler.error_code = ReclaimCode
     \/ scratch_handler.pc = "reclaim_store"
  /\ scratch_handler' # scratch_handler
ReclaimReturns ==
  /\ scratch_handler.pc = "reclaim_store"
  /\ scratch_handler'.pc = "idle"

\* C22: a scratch handler that runs with error_code == 512 and TERMINATE
\* clear releases the scratch, empties the ScratchInfo, rebuilds the SRD with
\* NUM_RECORDS 0 and COMPUTE_TMPRING_SIZE 0, stores 0 to the inactive signal,
\* clears USE_SCRATCH_ONCE, calls no callback, does not suspend the queue and
\* stays armed.
C22_Reclaim ==
  [][/\ Reclaiming => UNCHANGED <<callbacks, suspended_, kmd_updates,
                                  dynamicScratchState>>
     /\ ReclaimReturns =>
          /\ ~scratch_held'
          /\ queue_scratch_'.queue_base = "nullptr"
          /\ queue_scratch_'.size = 0
          /\ queue_scratch_'.size_per_thread = 0
          /\ queue_scratch_'.queue_process_offset = 0
          /\ scratch_srd'.NUM_RECORDS = 0
          /\ scratch_srd'.compute_tmpring_size = [WAVESIZE |-> 0, WAVES |-> 0]
          /\ inactive_signal' = Zero
          /\ "USE_SCRATCH_ONCE" \notin queue_properties'
          /\ scratch_regs' = Append(scratch_regs, scratch_handler.reg)]_vars

\* A large allocation, marked for single use, has been reclaimed and the
\* handler is armed.
C22_Witness ==
  /\ scratch_handler.pc = "idle"
  /\ queue_scratch_.large
  /\ queue_scratch_.dispatch_size > 0
  /\ queue_scratch_.size = 0
  /\ scratch_srd.NUM_RECORDS = 0
  /\ ~scratch_held
  /\ queue_properties = {}
  /\ inactive_signal = Zero
  /\ scratch_regs = <<Zero>>

\* ------------------------------------------------ the agent asks to retry
\* A step of the running scratch-handler invocation, and its return.
HandlerStep == scratch_handler.pc # "idle" /\ scratch_handler' # scratch_handler
HandlerReturns == scratch_handler.pc # "idle" /\ scratch_handler'.pc = "idle"

\* C25: when AcquireQueueScratch answers with retry the handler sets
\* SCRATCH_RETRY, leaves the SRD, the inactive signal and the callback alone
\* and is armed again on a value other than the current error_code; the next
\* invocation clears SCRATCH_RETRY and the retry bit of the signal and of its
\* error_code before it processes the code, and when the allocation then
\* succeeds the handler is armed again on a value other than 0.
C25_Retry ==
  [][/\ (HandlerStep /\ scratch_handler.pc = "process" /\ queue_scratch_'.retry)
          => /\ "RETRY" \in dynamicScratchState'
             /\ UNCHANGED <<scratch_srd, inactive_signal, callbacks, suspended_>>
     /\ (HandlerReturns /\ "RETRY" \in dynamicScratchState)
          => /\ scratch_regs' = Append(scratch_regs, scratch_handler.error_code)
             /\ UNCHANGED <<scratch_srd, inactive_signal, callbacks, suspended_,
                            dynamicScratchState>>
     /\ (HandlerStep /\ scratch_handler.pc = "retry_check"
           /\ "RETRY" \in dynamicScratchState)
          => "RETRY" \notin dynamicScratchState'
     /\ (HandlerStep /\ scratch_handler.pc = "retry_check"
           /\ "RETRY" \in dynamicScratchState /\ scratch_handler'.pc = "term_check")
          => FALSE
     /\ (HandlerStep /\ scratch_handler'.pc = "term_check"
           /\ scratch_handler.pc = "retry_and")
          => /\ inactive_signal' = inactive_signal \ RetryValue
             /\ scratch_handler'.error_code \cap RetryValue = {}
     /\ (HandlerReturns /\ scratch_handler.pc = "tail"
           /\ scratch_handler.changeWait /\ scratch_handler.errorCode = "SUCCESS"
           /\ "RETRY" \notin dynamicScratchState)
          => scratch_regs' = Append(scratch_regs, Zero)]_vars

\* An invocation woken by the agent's retry has been granted its scratch and
\* is about to return.
C25_Witness ==
  /\ scratch_handler.pc = "tail"
  /\ scratch_handler.errorCode = "SUCCESS"
  /\ scratch_handler.changeWait
  /\ scratch_handler.waitVal = Zero
  /\ "RETRY" \notin dynamicScratchState
  /\ queue_scratch_.queue_base = "base"
  /\ ~queue_scratch_.retry
  /\ inactive_signal = Zero

\* ------------------------------------------------ a surfaced error
\* The invocation that surfaced an error has returned.
SurfacedAndReturned == callbacks # <<>> /\ scratch_handler.pc = "idle"

\* C26: a scratch handler that surfaces an error (OUT_OF_RESOURCES, or a
\* decoded code with HandleExceptions) suspends the queue, calls the callback
\* once with that error, sets DONE, stores -1 and returns unarmed; it is not
\* invoked again and a destructor that checks afterwards does not wait.
C26_Surfaced ==
  [][/\ (HandlerStep /\ scratch_handler.pc = "tail"
           /\ scratch_handler.errorCode # "SUCCESS")
          => /\ suspended_'
             /\ kmd_updates' = Append(kmd_updates,
                                      [percent |-> 0, priority |-> priority_])
             /\ scratch_handler'.pc = "callback"
     /\ (HandlerStep /\ scratch_handler.pc = "callback")
          => /\ callbacks = <<>>
             /\ callbacks' = <<scratch_handler.errorCode>>
     /\ (HandlerReturns /\ scratch_handler.errorCode # "SUCCESS")
          => /\ suspended_
             /\ callbacks = <<scratch_handler.errorCode>>
             /\ "DONE" \in dynamicScratchState
             /\ inactive_signal' = AllOnes
             /\ scratch_regs' = <<>>
     /\ SurfacedAndReturned
          => /\ scratch_handler' = scratch_handler
             /\ scratch_regs' = <<>>
             /\ callbacks' = callbacks
             /\ dpc = "chk1" => dpc' \in {"chk1", "term2"}]_vars

\* The agent refused the scratch: the handler has reported OUT_OF_RESOURCES
\* and returned, and the destructor has found it done.
C26_Witness ==
  /\ SurfacedAndReturned
  /\ callbacks = <<"OUT_OF_RESOURCES">>
  /\ suspended_
  /\ inactive_signal = AllOnes
  /\ scratch_regs = <<>>
  /\ dpc = "term2"

\* ------------------------------------------------ codes that are not scratch
\* An error_code that is neither 512 nor has a bit of 0x401.
OtherCode(error_code) ==
  /\ error_code # ReclaimCode
  /\ error_code \cap InsufficientScratch = {}

\* What C28 says of an invocation, seen at its return.
NothingSurfaced ==
  /\ inactive_signal' # AllOnes
  /\ ~suspended_'
  /\ callbacks' = <<>>
  /\ "DONE" \notin dynamicScratchState'
  /\ scratch_regs' # <<>>

\* C28 as stated: with HandleExceptions false every invocation whose
\* error_code is neither 512 nor has a bit of 0x401 stores 0, does not
\* suspend, calls no callback, does not set DONE and remains armed.
C28_Original ==
  [][(HandlerReturns /\ supports_exception_debugging
        /\ OtherCode(scratch_handler.error_code))
       => NothingSurfaced]_vars

\* C28: with HandleExceptions false an invocation that finds TERMINATE clear
\* and whose error_code is neither 512 nor has a bit of 0x401 stores 0, does
\* not suspend, calls no callback, does not set DONE and remains armed (on a
\* value other than 0 if it woke from a retry, as it was otherwise); one that
\* finds TERMINATE set sets DONE, stores -1 and returns unarmed.
C28_Amended ==
  [][/\ (HandlerStep /\ supports_exception_debugging
           /\ scratch_handler.pc = "process"
           /\ OtherCode(scratch_handler.error_code))
          => /\ inactive_signal' = Zero
             /\ scratch_handler'.pc = "tail"
             /\ scratch_handler'.errorCode = "SUCCESS"
             /\ UNCHANGED <<suspended_, kmd_updates, callbacks,
                            dynamicScratchState, scratch_regs>>
     /\ (HandlerReturns /\ supports_exception_debugging
           /\ scratch_handler.pc = "tail"
           /\ OtherCode(scratch_handler.error_code))
          => /\ scratch_regs' =
                  Append(scratch_regs,
                         IF scratch_handler.changeWait THEN Zero
                         ELSE scratch_handler.reg)
             /\ UNCHANGED <<suspended_, kmd_updates, callbacks,
                            dynamicScratchState>>
             /\ ~suspended_
             /\ callbacks = <<>>
             /\ "DONE" \notin dynamicScratchState
     /\ (HandlerReturns /\ supports_exception_debugging
           /\ scratch_handler.pc = "store"
           /\ OtherCode(scratch_handler.error_code))
          => /\ "DONE" \in dynamicScratchState
             /\ inactive_signal' = AllOnes
             /\ scratch_regs' = <<>>]_vars

\* DynamicScratchHandler<false> has cleared a code of the exception channel
\* and is about to return.
C28_Witness ==
  /\ supports_exception_debugging
  /\ scratch_handler.pc = "tail"
  /\ scratch_handler.error_code = {29, 30}
  /\ ~scratch_handler.changeWait
  /\ inactive_signal = Zero
  /\ dynamicScratchState = {}
  /\ callbacks = <<>>
  /\ ~suspended_

\* ------------------------------------------------ the decoded error kind
\* The rows of C29, in order: the bits of a row and its error kind.
Rows ==
  << <<{1}, "INCOMPATIBLE_ARGUMENTS">>, <<{2}, "INVALID_ALLOCATION">>,
     <<{3}, "INVALID_CODE_OBJECT">>, <<{5, 8}, "INVALID_PACKET_FORMAT">>,
     <<{6}, "INVALID_ARGUMENT">>, <<{7}, "INVALID_ISA">>,
     <<{29}, "MEMORY_APERTURE_VIOLATION">>, <<{30}, "ILLEGAL_INSTRUCTION">>,
     <<{31}, "EXCEPTION">> >>
Matching(error_code) ==
  {k \in 1 .. Len(Rows) : Rows[k][1] \cap error_code # {}}
FirstRow(error_code) ==
  IF Matching(error_code) = {} THEN "ERROR"
  ELSE Rows[CHOOSE k \in Matching(error_code) :
              \A j \in Matching(error_code) : k <= j][2]

ExcStep == exc_handler.pc # "idle" /\ exc_handler' # exc_handler

\* What fault processing would change.
faultEffects == <<scratch_held, queue_scratch_, scratch_srd, queue_properties,
                  suspended_, kmd_updates, callbacks>>

\* C27: a scratch-handler invocation that finds TERMINATE set processes no
\* fault, whatever the signal holds: it does not release or acquire scratch,
\* rebuild the SRD, suspend the queue or call the callback; it only clears a
\* pending retry bit, sets DONE and stores -1. An ExceptionHandler invocation
\* that finds exceptionState == TERMINATE only sets DONE and stores 0.
C27_Terminating ==
  [][/\ (HandlerStep /\ scratch_handler.pc \in {"retry_check", "retry_and"})
          => UNCHANGED faultEffects
     /\ (HandlerStep /\ scratch_handler.pc = "term_check"
           /\ "TERMINATE" \in dynamicScratchState)
          => /\ scratch_handler'.pc = "copy"
             /\ scratch_handler'.errorCode = "SUCCESS"
             /\ UNCHANGED <<faultEffects, inactive_signal, dynamicScratchState>>
     /\ (HandlerStep /\ scratch_handler.pc \in {"copy", "done", "store"}
           /\ scratch_handler.errorCode = "SUCCESS")
          => /\ UNCHANGED faultEffects
             /\ scratch_handler.pc = "copy" =>
                  UNCHANGED <<inactive_signal, dynamicScratchState>>
             /\ scratch_handler.pc = "done" =>
                  dynamicScratchState' = {"DONE"} /\ UNCHANGED inactive_signal
             /\ scratch_handler.pc = "store" =>
                  /\ inactive_signal' = AllOnes
                  /\ scratch_handler'.pc = "idle"
                  /\ UNCHANGED <<scratch_regs, dynamicScratchState>>
     /\ (ExcStep /\ exc_handler.pc = "check" /\ exceptionState = {"TERMINATE"})
          => /\ exc_handler'.pc = "copy"
             /\ UNCHANGED <<suspended_, kmd_updates, callbacks,
                            exception_signal, exceptionState>>
     /\ (ExcStep /\ exc_handler.pc \in {"copy", "done", "store"})
          => /\ UNCHANGED <<suspended_, kmd_updates, callbacks>>
             /\ exc_handler.pc = "done" => exceptionState' = {"DONE"}
             /\ exc_handler.pc = "store" =>
                  /\ exception_signal' = Zero
                  /\ exc_handler'.pc = "idle"
                  /\ UNCHANGED <<exc_armed, exceptionState>>]_vars

\* The destructor's wake-up reached a handler that was waiting for the agent's
\* retry: it has set DONE without processing the fault and is about to store.
C27_Witness ==
  /\ dpc = "wait1"
  /\ scratch_handler.pc = "store"
  /\ scratch_handler.errorCode = "SUCCESS"
  /\ scratch_handler.changeWait
  /\ RetryValue \cap scratch_handler.error_code = {}
  /\ dynamicScratchState = {"DONE"}
  /\ scratch_regs = <<>>
  /\ ~suspended_
  /\ callbacks = <<>>

\* ====================== ExceptionHandler under every exception code (960-1033)
\* The bitmasks the KFD posts: bit code - 1 for codes of the queue (1, 5, 6,
\* 31) and of the device (33, 34, 36, 50), and masks with two bits.
ExcFaultCodes ==
  {{0}, {4}, {5}, {30}, {32}, {33}, {35}, {49}, {4, 32}, {32, 33}, {15, 49},
   {7}}

\* The KFD posts an exception to the word named by ErrorReason (263).
ExcFault ==
  /\ kmd_destroy_calls = 0
  /\ exception_signal = Zero
  /\ \E code \in ExcFaultCodes : exception_signal' = code
  /\ UNCHANGED <<notLife, lifeCfg, dynamicScratchState, exceptionState,
                 inactive_signal, scratch_regs, exc_armed, lifeHandlers, dpc,
                 lifeQueue, lifeGhost, lifeInact>>

\* A constructed queue on a KFD that supports exception debugging.
InitExc ==
  /\ DbIdle
  /\ supports_exception_debugging = TRUE
  /\ LifeConstructed
  /\ RestIdle
  /\ EventOneQueue

\* The exceptions and their handler; Destroy, and what the destructor and the
\* handlers it wakes do.
NextExc ==
  \/ ExcFault
  \/ DispatchException
  \/ ExceptionHandler
  \/ Destroy
  \/ DispatchScratch
  \/ H_RetryCheck
  \/ H_TermCheck
  \/ H_Copy
  \/ H_Done
  \/ H_Store
  \/ Destructor

SpecExc == InitExc /\ [][NextExc]_vars

\* The entries of the table whose bit, at position code - 1, is set in the
\* bitmask, and the kind of the first of them.
EntriesSet(error_code) ==
  {k \in 1 .. Len(QueueErrors) : QueueErrors[k][1] - 1 \in error_code}
FirstEntry(error_code) ==
  IF EntriesSet(error_code) = {} THEN "ERROR"
  ELSE QueueErrors[CHOOSE k \in EntriesSet(error_code) :
                     \A j \in EntriesSet(error_code) : k <= j][2]

\* C30: an ExceptionHandler that is not terminating reports the kind of the
\* first entry of the table whose bit, at position code - 1, is set, for
\* every entry, the device-level codes 33, 34, 35, 36 and 50 included; it
\* suspends the queue before the callback, then sets DONE and stores 0, and
\* is not armed again.
C30_FirstEntry ==
  [][/\ (ExcStep /\ exc_handler.pc = "callback")
          => /\ suspended_
             /\ callbacks' = Append(callbacks, FirstEntry(exc_handler.error_code))
     /\ (ExcStep /\ exc_handler.pc = "store")
          => /\ exceptionState = {"DONE"}
             /\ exception_signal' = Zero
             /\ ~exc_armed']_vars

\* ================================== Destroy and cooperative queues (360-366)
\* EnableGWS and Destroy on a constructed queue, with the destructor and the
\* handlers it wakes.
NextGws ==
  \/ EnableGWS
  \/ Destroy
  \/ DispatchScratch
  \/ H_RetryCheck
  \/ H_TermCheck
  \/ H_Copy
  \/ H_Done
  \/ H_Store
  \/ DispatchException
  \/ E_Check
  \/ E_Copy
  \/ E_Done
  \/ E_Store
  \/ Destructor

SpecGws == InitLife /\ [][NextGws]_vars

\* A step of Destroy, and a step of EnableGWS.
DestroyStep ==
  /\ dpc = "live"
  /\ dpc' # "live" \/ gws_release_calls' # gws_release_calls
EnableGWSStep == Len(enable_gws_ret') > Len(enable_gws_ret)

\* Everything of the queue and of the process but the count of GWSRelease.
allButRelease == <<dbVars, lifeVars, evVars, ctorVars, pm4Vars, prioVars, cuVars,
                   srdVars, ringVars, hsa_queue_type, enable_gws_ret>>

\* C23: Destroy on a queue of type COOPERATIVE calls agent.GWSRelease and
\* changes nothing else (handler states, active flag, KMD queue, scratch,
\* ring, signals, queue count); on any other queue it starts the destructor,
\* which only ever runs on such a queue; the type becomes COOPERATIVE with a
\* successful EnableGWS and is left as it was by a failed one.
C23_CooperativeDestroy ==
  [][/\ DestroyStep =>
          IF hsa_queue_type = "COOPERATIVE"
          THEN /\ gws_release_calls' = gws_release_calls + 1
               /\ UNCHANGED allButRelease
          ELSE /\ dpc' = "chk1"
               /\ "TERMINATE" \in dynamicScratchState'
               /\ UNCHANGED gws_release_calls
     /\ EnableGWSStep =>
          IF enable_gws_ret'[Len(enable_gws_ret')] = "SUCCESS"
          THEN hsa_queue_type' = "COOPERATIVE"
          ELSE hsa_queue_type' = hsa_queue_type
     /\ dpc # "live" => hsa_queue_type # "COOPERATIVE" /\ gws_release_calls = 0
     /\ ~EnableGWSStep => hsa_queue_type' = hsa_queue_type]_vars

\* EnableGWS failed, then succeeded, and Destroy has given the queue back to
\* the agent: the queue is as it was constructed.
C23_Witness ==
  /\ enable_gws_ret = <<"OUT_OF_RESOURCES", "SUCCESS">>
  /\ hsa_queue_type = "COOPERATIVE"
  /\ gws_release_calls = 1
  /\ LifeConstructed
  /\ CtorDone
  /\ queue_count_ = 1

\* ===================================== the ring as the producers see it
\* Requests that end at the smallest ring, are refused, and end at a ring of
\* one page and of two pages.
RingRequests == {0, 3, 2 ^ (PageLog2 - PacketLog2), 2 ^ (PageLog2 - PacketLog2 + 1)}

\* What a load from a slot without ring memory behind it gives: a fault, or
\* whatever else is mapped there.
StrayLoads == {"fault", "unrelated"}

notRing == <<dbVars, lifeVars, evVars, ctorVars, pm4Vars, prioVars, cuVars,
             gwsVars, srdVars, agent_profile, ring_buf_alloc_bytes_, ring_view>>

\* A producer stores a packet through ring_buf_ at slot i or i + size; a
\* store to a slot without ring memory behind it does not reach the ring.
RingWrite ==
  /\ kpc = "done"
  /\ ring_store = InvalidRing(queue_size_pkts)
  /\ \E k \in 1 .. 2 * queue_size_pkts :
       IF k \in DOMAIN ring_view
       THEN /\ ring_store' = [ring_store EXCEPT ![ring_view[k]] = "PACKET"]
            /\ ring_read' = NoRead
       ELSE /\ ring_read' = [slot |-> k, value |-> "fault"]
            /\ UNCHANGED ring_store
  /\ UNCHANGED notRing

\* A load through ring_buf_ at slot i or i + size, after the store.
RingRead ==
  /\ kpc = "done"
  /\ ring_store # InvalidRing(queue_size_pkts)
  /\ \E k \in 1 .. 2 * queue_size_pkts :
       IF k \in DOMAIN ring_view
       THEN ring_read' = [slot |-> k, value |-> ring_store[ring_view[k]]]
       ELSE \E v \in StrayLoads : ring_read' = [slot |-> k, value |-> v]
  /\ UNCHANGED <<notRing, ring_store>>

\* The constructor for a choice of requests, on a process without other
\* queues.
InitRing ==
  /\ InitCtor
  /\ req_size_pkts \in RingRequests
  /\ ~supports_exception_debugging
  /\ queue_count_ = 0

NextRing ==
  \/ NextCtor
  \/ RingWrite
  \/ RingRead

SpecRing == InitRing /\ [][NextRing]_vars

\* Slot i and slot i + size of the ring lead to the same physical packet.
Aliased(i) ==
  /\ i + queue_size_pkts \in DOMAIN ring_view
  /\ ring_view[i + queue_size_pkts] = ring_view[i]

\* The load went to an address of the slot that holds the packet stored.
ReadOfStored ==
  /\ ring_read.slot > 0
  /\ ring_store[((ring_read.slot - 1) % queue_size_pkts) + 1] = "PACKET"

InFlight ==
  {t \in Pm4Callers :
     pc[t] \notin {"x_entry", "x_add", "x_wait", "x_write", "x_done"}}

\* C31: at most one ExecutePM4 call is between the copy of its command into
\* the PM4 IB and the observation that its packet was consumed, and the
\* command in the IB is replaced by another call's only after read_index has
\* passed the write index of the packet that refers to it.
C31_IbExclusive ==
  /\ [](Cardinality(InFlight) <= 1)
  /\ [][(pm4_ib_cmd # 0 /\ pm4_ib_cmd' # pm4_ib_cmd)
          => read_dispatch_id > idx[pm4_ib_cmd]]_vars

\* A second call has replaced the command of a call that returned, and its
\* own packet is published and not yet consumed.
C31_Witness ==
  \E t, u \in Pm4Callers :
    /\ t # u
    /\ pc[t] = "x_done"
    /\ pm4_ib_cmd = u
    /\ u \in InFlight
    /\ ring[idx[u] % Size] = <<idx[u]>>
    /\ read_dispatch_id <= idx[u]


\* ================== the legacy doorbell under producers that all keep running
\* Two producers of the submission protocol: one that reserves a whole ring
\* of packets at once on the fresh queue and submits them one by one, and one
\* that submits one packet.
BatchProducer ==
  CHOOSE t \in Producers : \A u \in Producers : t <= u
LegacyProducers == {BatchProducer, BatchProducer + 1}

\* The producers on an agent with the legacy doorbell of type 1, in both
\* builds, with and without the wait for the slot.
InitLegacy ==
  /\ doorbell_type_ = 1
  /\ large_model \in BOOLEAN
  /\ queue_full_workaround_ = 1
  /\ supports_exception_debugging = FALSE
  /\ LifeConstructed
  /\ RestIdle
  /\ EventOneQueue
  /\ waits_for_slot \in BOOLEAN
  /\ InitQueueRecord
  /\ pc = [t \in Threads |->
             IF t = BatchProducer THEN "batch"
             ELSE IF t \in LegacyProducers THEN "start" ELSE "off"]
  /\ val = [t \in Threads |-> 0]
  /\ legacy_dispatch_id = [t \in Threads |-> 0]
  /\ idx = [t \in Threads |-> 0]
  /\ script_pos = 0

\* AddWriteIndexAcqRel(size) on the fresh queue (411-419): the packets 0 to
\* size - 1 are the caller's.
BatchAdd(t) ==
  /\ pc[t] = "batch"
  /\ write_dispatch_id = 0
  /\ AddWriteIndex(0, Size)
  /\ idx' = [idx EXCEPT ![t] = 0]
  /\ pc' = [pc EXCEPT ![t] = "wait"]
  /\ UNCHANGED <<notDb, dbCfg, read_dispatch_id, max_legacy_doorbell_dispatch_id_plus_1,
                 legacy_doorbell_lock, dbHw, val, legacy_dispatch_id, script_pos>>

\* The batch producer goes on to the next packet of its reservation.
BatchNext(t) ==
  /\ t = BatchProducer
  /\ pc[t] = "idle"
  /\ idx[t] + 1 < Size
  /\ idx' = [idx EXCEPT ![t] = idx[t] + 1]
  /\ pc' = [pc EXCEPT ![t] = "wait"]
  /\ UNCHANGED <<notDb, dbCfg, dbQueue, dbHw, val, legacy_dispatch_id, script_pos>>

\* StoreRelaxed on a legacy doorbell (438-499).
LegacyStore(t) ==
  \/ DbLock(t)
  \/ DbCompute(t)
  \/ DbClamp(t)
  \/ DbCompare(t)
  \/ DbMmio(t)
  \/ DbUnlock(t)

\* The submissions of a producer.
Submit(t) ==
  \/ BatchAdd(t)
  \/ BatchNext(t)
  \/ ProdAdd(t)
  \/ ProdWait(t)
  \/ ProdWrite(t)
  \/ LegacyStore(t)

NextLegacy ==
  \/ \E t \in LegacyProducers : Submit(t)
  \/ GpuConsume

SpecLegacy == InitLegacy /\ [][NextLegacy]_vars

\* Every producer keeps running and the packet processor consumes what it
\* is allowed to.
FairLegacy ==
  /\ SpecLegacy
  /\ \A t \in LegacyProducers : WF_vars(Submit(t))
  /\ WF_vars(GpuConsume)

\* The threads between the acquisition of legacy_doorbell_lock and its
\* release (439-499).
InLockedRegion ==
  {t \in LegacyProducers : pc[t] \in {"compute", "clamp", "compare", "mmio", "unlock"}}

\* C32: at most one thread is between the acquisition and the release of
\* legacy_doorbell_lock, and it is the one the lock is held for, so that the
\* compare, the update of max_legacy_doorbell_dispatch_id_plus_1 and the
\* MMIO write are steps of the holder alone; a call that returns has released
\* the lock, whether its doorbell was forwarded or dropped; and every call
\* that has started returns.
C32_LockedRegion ==
  /\ [](/\ Cardinality(InLockedRegion) <= 1
        /\ \A t \in InLockedRegion : legacy_doorbell_lock = t
        /\ (InLockedRegion = {}) => legacy_doorbell_lock = 0)
  /\ [][/\ (max_legacy_doorbell_dispatch_id_plus_1'
              # max_legacy_doorbell_dispatch_id_plus_1 \/ mmio' # mmio)
              => /\ legacy_doorbell_lock # 0
                 /\ pc'[legacy_doorbell_lock] # pc[legacy_doorbell_lock]
        /\ \A t \in LegacyProducers :
             (pc[t] = "unlock" /\ pc'[t] = "idle")
               => legacy_doorbell_lock' = 0]_vars
  /\ \A t \in LegacyProducers : (pc[t] = "call") ~> (pc[t] = "idle")

\* The call of the single-packet producer was dropped (the one MMIO write is
\* that of the batch producer's first call) and is about to release the lock
\* while the batch producer spins on it with its second doorbell.
C32_Witness ==
  \E t \in LegacyProducers \ {BatchProducer} :
    /\ pc[t] = "unlock"
    /\ legacy_doorbell_lock = t
    /\ Len(mmio) = 1
    /\ pc[BatchProducer] = "call"
    /\ idx[BatchProducer] = 1


\* --------------------------------------------------------------- claim C33
\* A small-model call has loaded the write index w, which is more than a full
\* ring beyond the read index: its clamp (462-464) cuts the index it submits.
AboutToClamp(t, w) ==
  /\ ~large_model
  /\ pc[t] = "clamp"
  /\ legacy_dispatch_id[t] = w
  /\ w > read_dispatch_id + Size

\* A doorbell that covers the packets below index w has reached the MMIO
\* register.
Delivered(w) ==
  \E k \in 1 .. Len(mmio) : mmio[k].id >= w

\* The write indices beyond a full ring that the producers reach.
BeyondRing == Size + 1 .. Size + Cardinality(LegacyProducers) - 1

ErrorsPresent(error_code) ==
  /\ error_code \cap InsufficientScratch # {}
  /\ error_code \ (InsufficientScratch \cup RetryValue) # {}

\* C34: an invocation of the scratch handler whose error_code has an
\* insufficient-scratch bit together with another error bit neither releases
\* nor reallocates the scratch, and does not store 0 into the inactive signal.
C34_ErrorsPresent ==
  [][(HandlerStep /\ ErrorsPresent(scratch_handler.error_code))
       => /\ UNCHANGED <<queue_scratch_, scratch_held, scratch_srd>>
          /\ (inactive_signal' # inactive_signal => inactive_signal' # Zero)]_vars


\* ------------------------------------------------ the order of the teardown
\* The destructor is past ReleaseQueueScratch (345).
ScratchReleased ==
  dpc \in {"ring", "signals", "event", "event_dec", "pm4", "freed"}

\* C35: in the destructor hsaKmtDestroyQueue has been called before the
\* scratch is released, the scratch is released before the ring is freed,
\* the ring is freed before the signals are destroyed, and the signals are
\* destroyed before the global queue count is decremented: scratch and ring
\* are never released while the KMD queue is attached.
C35_TeardownOrder ==
  /\ ScratchReleased => kmd_destroy_calls >= 1
  /\ ring_freed => (ScratchReleased /\ kmd_destroy_calls >= 1)
  /\ signals_destroyed => ring_freed
  /\ (queue_count_ = 0) => signals_destroyed


\* ------------------------------------- the registrations of the scratch handler
\* C36: whenever no invocation of the scratch handler is executing, exactly
\* one registration of the handler is armed on the inactive signal when
\* dynamicScratchState lacks DONE, and none when DONE is set.
C36_OneRegistration ==
  (scratch_handler.pc = "idle")
    => Len(scratch_regs) = (IF "DONE" \in dynamicScratchState THEN 0 ELSE 1)

\* The handler was registered again on a value other than 0, after the agent
\* asked to retry, and its invocation has returned.
C36_Witness ==
  /\ scratch_handler.pc = "idle"
  /\ "RETRY" \in dynamicScratchState
  /\ "DONE" \notin dynamicScratchState
  /\ Len(scratch_regs) = 1
  /\ scratch_regs[1] # Zero


\* --------------------------------------------- the cached mask is never empty
\* C37: after a SetCUMasking call that returned SUCCESS or CU_MASK_REDUCED
\* the cached mask is not empty, so that the assertion of a following
\* GetCUMasking (1096) holds, for every num_cu_mask_count, those below one
\* word included, and every global mask.
C37_CachedMaskNonEmpty ==
  SetDone => cu_mask_ # <<>>


\* ------------------------------------- a refused SetPriority records nothing
\* C38: the step in which a SetPriority call returns an error, INVALID_QUEUE
\* of a suspended queue or OUT_OF_RESOURCES of a failed hsaKmtUpdateQueue,
\* leaves priority_, which later Suspend and SetPriority calls pass to the
\* KMD, as it was.
C38_ErrorKeepsPriority ==
  [][\A t \in InactCallers :
       (/\ set_priority[t].pc # "returned"
        /\ set_priority'[t].pc = "returned"
        /\ set_priority'[t].ret \in {"INVALID_QUEUE", "OUT_OF_RESOURCES"})
         => priority_' = priority_]_vars

====
